---------------------------- MODULE Spec2Model ----------------------------
(***************************************************************************)
(* MeshSwarm: replicated key/value state, watchers, heartbeats and the     *)
(* cooperative update() loop of src/src/MeshSwarm.cpp, one MeshSwarm       *)
(* object per node id.  The mesh transport (painlessMesh) is the           *)
(* environment: a set of messages in flight that it may deliver in any     *)
(* order or lose.                                                          *)
(***************************************************************************)
EXTENDS Integers, Sequences, FiniteSets, TLC

(* ------------------------------ bounds -------------------------------- *)

\* Number of nodes in the mesh; node ids are 1..NumNodes.
NumNodes == 2

\* Value-changing local writes a node may perform in one behaviour.
MaxWrites == 2

\* Messages the transport holds in flight at once.
MaxInFlight == 3

\* Watcher registrations on one node.
MaxWatchers == 2

\* Largest version number an injected (environment) STATE_SET carries.
MaxVersion == 2

\* uint32_t version arithmetic is modulo 2^32; the model keeps the modular
\* arithmetic with a scaled-down range 0..VersionWrap-1.
VersionWrap == 16

\* unsigned long millis() arithmetic is modulo 2^32; scaled down likewise.
ClockWrap == 131072

(* ------------------------- program constants -------------------------- *)

HEARTBEAT_INTERVAL == 5000
STATE_SYNC_INTERVAL == 10000
TELEMETRY_INTERVAL == 30000
STATE_TELEMETRY_MIN_INTERVAL == 2000
PEER_DEAD_MS == 15000
OTA_POLL_INTERVAL == 60000
OTA_PART_SIZE == 1024

MSG_HEARTBEAT == 1
MSG_STATE_SET == 2
MSG_STATE_SYNC == 3
MSG_STATE_REQ == 4
MSG_COMMAND == 5
MSG_TELEMETRY == 6
DISPLAY_SLEEP_TIMEOUT_MS == 30000
DPM_MAX_WAKE_BUTTONS == 4
DPM_DEBOUNCE_MS == 50

(* ------------------------------- state -------------------------------- *)

VARIABLES
  sharedState,            \* [node -> [key -> StateEntry]]  (std::map)
  stateWatchers,          \* [node -> [key -> Seq(callback id)]]
  peers,                  \* [node -> [peer id -> Peer]]
  myRole,                 \* [node -> "COORD" | "PEER"]
  coordinatorId,          \* [node -> id]
  lastHeartbeat,          \* [node -> ms]
  lastStateSync,          \* [node -> ms]
  lastTelemetryPush,      \* [node -> ms]
  lastStateTelemetryPush, \* [node -> ms]
  telemetryEnabled,       \* [node -> BOOLEAN]
  gatewayMode,            \* [node -> BOOLEAN]
  telemetryUrl,           \* [node -> string]
  telemetryInterval,      \* [node -> ms]
  wifiConnected,          \* [node -> BOOLEAN]: WiFi.status() == WL_CONNECTED
  bootTime,               \* [node -> ms]
  loopCallbacks,          \* [node -> Seq(callback id)]
  nodeList,               \* [node -> set of ids]: the transport's getNodeList()
  otaDistributionEnabled, \* [node -> BOOLEAN]
  lastOTACheck,           \* [node -> ms]
  currentOTAUpdate,       \* [node -> OTAUpdateInfo]
  otaFirmwareSize,        \* [node -> bytes]
  otaLastPartSent,        \* [node -> part number, -1 for none]
  otaTransferStarted,     \* [node -> BOOLEAN]
  otaSender,              \* [node -> the callback given to the transport's initOTASend]
  displayPower,           \* the fields of a DisplayPowerManager object
  now,                    \* millis()
  net,                    \* messages in flight: [dst, from, t, n, d]
  last,                   \* history: the last operation, its inputs and effects
  wrote,                  \* history: value-changing local writes per node
  scn                     \* history: the progress of a scenario

storeVars == <<sharedState, stateWatchers>>
memberVars == <<peers, myRole, coordinatorId, nodeList>>
timerVars == <<lastHeartbeat, lastStateSync>>
telemVars == <<lastTelemetryPush, lastStateTelemetryPush>>
configVars == <<telemetryEnabled, gatewayMode, telemetryUrl, telemetryInterval, wifiConnected,
               bootTime, loopCallbacks>>
otaVars == <<otaDistributionEnabled, lastOTACheck, currentOTAUpdate, otaFirmwareSize,
            otaLastPartSent, otaTransferStarted, otaSender>>
vars == <<sharedState, stateWatchers, peers, myRole, coordinatorId, lastHeartbeat,
          lastStateSync, lastTelemetryPush, lastStateTelemetryPush, telemetryEnabled,
          gatewayMode, telemetryUrl, telemetryInterval, wifiConnected, bootTime, loopCallbacks,
          nodeList, otaDistributionEnabled, lastOTACheck, currentOTAUpdate, otaFirmwareSize,
          otaLastPartSent, otaTransferStarted, otaSender, displayPower, now, net, last, wrote, scn>>
Nodes == 1..NumNodes

(* ------------------------------ helpers ------------------------------- *)
\* The history of a step that runs no handler.
Idle(op) ==
  [op |-> op, node |-> 0, arg |-> [none |-> TRUE],
   ret |-> FALSE, fired |-> <<>>, sent |-> <<>>, pushes |-> 0, http |-> <<>>]


EmptyMap == [x \in {} |-> 0]

\* std::map operator[] assignment
Put(m, k, e) == [x \in (DOMAIN m) \cup {k} |-> IF x = k THEN e ELSE m[x]]

\* ArduinoJson  data["f"] | default
JsonOr(d, f, default) == IF f \in DOMAIN d THEN d[f] ELSE default

\* The keys of a map in std::map iteration order.  Keys are strings; the
\* model's keys are ordered by KeyRank (byte order of the strings used).
KeyRank(k) ==
  CASE k = "" -> 0 [] k = "*" -> 1 [] k = "a" -> 2 [] k = "b" -> 3 [] k = "k" -> 4
    [] k = "x" -> 5 [] OTHER -> 6

RECURSIVE SortedKeys(_)
SortedKeys(S) ==
  IF S = {} THEN <<>>
  ELSE LET k == CHOOSE a \in S : \A b \in S : KeyRank(a) <= KeyRank(b)
       IN <<k>> \o SortedKeys(S \ {k})

RECURSIVE SumOver(_, _)
SumOver(f, S) ==
  IF S = {} THEN 0
  ELSE LET a == CHOOSE b \in S : TRUE IN f[a] + SumOver(f, S \ {a})

\* (mutant: the difference taken as a signed number, without the wrap)
PlainDiff(a, b) == a - b

\* unsigned subtraction  a - b  on the millisecond clock
UDiff(a, b) == (a - b) % ClockWrap

(* ----------------------- watchers (pure parts) ------------------------ *)

\* One loop of triggerWatchers: the callbacks stored under watch key wk, in
\* vector order, each called with (key, value, oldValue).
CallsFor(W, wk, key, value, oldValue) ==
  IF wk \in DOMAIN W
  THEN [i \in 1..Len(W[wk]) |->
          [cb |-> W[wk][i], key |-> key, value |-> value, oldValue |-> oldValue]]
  ELSE <<>>

\* triggerWatchers: the key's own watchers, then the wildcard watchers.
TriggerWatchers(W, key, value, oldValue) ==
  CallsFor(W, key, key, value, oldValue) \o CallsFor(W, "*", key, value, oldValue)

(* ---------------------- handler-local computation --------------------- *)
(* A handler is computed on a record L of the fields it may change and    *)
(* the effects it produces, then committed by the action that runs it:    *)
(*   st      sharedState of the node                                      *)
(*   fired   watcher invocations, in order                                *)
(*   sent    envelopes handed to mesh.sendBroadcast, in order             *)
(*   ltp, lstp   lastTelemetryPush, lastStateTelemetryPush                *)
(*   prs     peers of the node                                            *)
(*   pushes  calls of pushTelemetry / sendTelemetryToGateway              *)
(*   http    HTTP requests and OTA transport calls made, in call order    *)
(*   ret     the handler's return value                                   *)

Ctx(n) ==
  [st |-> sharedState[n], fired |-> <<>>, sent |-> <<>>,
   ltp |-> lastTelemetryPush[n], lstp |-> lastStateTelemetryPush[n],
   prs |-> peers[n], pushes |-> 0, http |-> <<>>, ret |-> FALSE]

\* createMsg: the envelope {t, n, d}; n is the sender's name (its id here).
createMsg(n, type, data) == [t |-> type, n |-> n, d |-> data]

EntryData(key, e) == [k |-> key, v |-> e.value, ver |-> e.version, org |-> e.origin]

\* broadcastState(key)
BroadcastStateL(L, n, key) ==
  IF key \notin DOMAIN L.st THEN L
  ELSE [L EXCEPT !.sent = Append(@, createMsg(n, MSG_STATE_SET, EntryData(key, L.st[key])))]

\* broadcastFullState listing only the first entry of the store.
BroadcastFirstEntryL(L, n) ==
  IF DOMAIN L.st = {} THEN L
  ELSE LET ks == SortedKeys(DOMAIN L.st)
       IN [L EXCEPT !.sent = Append(@, createMsg(n, MSG_STATE_SYNC,
                                                 [s |-> <<EntryData(ks[1], L.st[ks[1]])>>]))]

\* broadcastFullState()
BroadcastFullStateL(L, n) ==
  IF DOMAIN L.st = {} THEN L
  ELSE LET ks == SortedKeys(DOMAIN L.st)
           arr == [i \in 1..Len(ks) |-> EntryData(ks[i], L.st[ks[i]])]
       IN [L EXCEPT !.sent = Append(@, createMsg(n, MSG_STATE_SYNC, [s |-> arr]))]

\* getPeerCount()
PeerCountOf(P) == Cardinality({p \in DOMAIN P : P[p].alive})

getPeerCount(n) == PeerCountOf(peers[n])

\* The telemetry document built by pushTelemetry and sendTelemetryToGateway.
TelemetryDoc(L, n) ==
  [name |-> n, uptime |-> UDiff(now, bootTime[n]) \div 1000,
   peer_count |-> PeerCountOf(L.prs), role |-> myRole[n],
   state |-> [k \in DOMAIN L.st |-> L.st[k].value]]

\* pushTelemetry()
PushTelemetryL(L, n) ==
  IF ~telemetryEnabled[n] \/ telemetryUrl[n] = "" THEN L
  ELSE IF ~wifiConnected[n] THEN L
  ELSE [L EXCEPT !.http = Append(@, [req |-> "telemetry", node |-> n,
                                      body |-> TelemetryDoc(L, n)])]

\* sendTelemetryToGateway()
SendTelemetryToGatewayL(L, n) ==
  [L EXCEPT !.sent = Append(@, createMsg(n, MSG_TELEMETRY, TelemetryDoc(L, n)))]

\* if (gatewayMode) pushTelemetry(); else sendTelemetryToGateway();
TelemetryDispatchL(L, n) ==
  LET L1 == IF gatewayMode[n] THEN PushTelemetryL(L, n) ELSE SendTelemetryToGatewayL(L, n)
  IN [L1 EXCEPT !.pushes = @ + 1]

\* (mutant: a state-change push leaves the periodic timer alone)
StateTelemetryKeepPeriodL(L, n) ==
  IF ~telemetryEnabled[n] THEN L
  ELSE IF UDiff(now, L.lstp) >= STATE_TELEMETRY_MIN_INTERVAL
       THEN [TelemetryDispatchL(L, n) EXCEPT !.lstp = now]
       ELSE L

\* The debounced push on a state change (setState and setStates).
StateTelemetryL(L, n) ==
  IF ~telemetryEnabled[n] THEN L
  ELSE IF UDiff(now, L.lstp) >= STATE_TELEMETRY_MIN_INTERVAL
       THEN [TelemetryDispatchL(L, n) EXCEPT !.ltp = now, !.lstp = now]
       ELSE L

\* (mutant: the version is not bumped)
NextVersionStuck(v) == v

\* sharedState[key].version + 1 in uint32_t
NextVersion(v) == (v + 1) % VersionWrap

\* (mutant: the unchanged-value test is missing)
WritePairAlways(L, n, key, value) ==
  LET has == key \in DOMAIN L.st
      oldValue == IF has THEN L.st[key].value ELSE ""
      newVersion == IF has THEN NextVersion(L.st[key].version) ELSE 1
      entry == [value |-> value, version |-> newVersion, origin |-> n, timestamp |-> now]
      L1 == [L EXCEPT !.st = Put(@, key, entry)]
      L2 == [L1 EXCEPT !.fired = @ \o TriggerWatchers(stateWatchers[n], key, value, oldValue)]
  IN [BroadcastStateL(L2, n, key) EXCEPT !.ret = TRUE]

\* One pair of setState / setStates up to and including broadcastState:
\* skip when the value is unchanged, else write, fire watchers, broadcast.
WritePairL(L, n, key, value) ==
  LET has == key \in DOMAIN L.st
      oldValue == IF has THEN L.st[key].value ELSE ""
      newVersion == IF has THEN NextVersion(L.st[key].version) ELSE 1
  IN IF has /\ oldValue = value THEN [L EXCEPT !.ret = FALSE]
     ELSE LET entry == [value |-> value, version |-> newVersion,
                        origin |-> n, timestamp |-> now]
              L1 == [L EXCEPT !.st = Put(@, key, entry)]
              L2 == [L1 EXCEPT !.fired = @ \o TriggerWatchers(stateWatchers[n], key, value, oldValue)]
          IN [BroadcastStateL(L2, n, key) EXCEPT !.ret = TRUE]

\* setState(key, value)
SetStateL(L, n, key, value) ==
  LET L1 == WritePairL(L, n, key, value)
  IN IF L1.ret THEN [StateTelemetryL(L1, n) EXCEPT !.ret = TRUE] ELSE L1

\* setStates(states): the loop over the pairs, anyChanged kept in ret.
RECURSIVE SetStatesLoop(_, _, _, _)
SetStatesLoop(L, n, pairs, anyChanged) ==
  IF pairs = <<>> THEN [L EXCEPT !.ret = anyChanged]
  ELSE LET L1 == WritePairL(L, n, pairs[1][1], pairs[1][2])
       IN SetStatesLoop(L1, n, Tail(pairs), anyChanged \/ L1.ret)

\* (mutant: every pair of a batch is compared with the store as it was
\* before the batch)
RECURSIVE SetStatesSnapshotLoop(_, _, _, _, _)
SetStatesSnapshotLoop(L, L0, n, pairs, anyChanged) ==
  IF pairs = <<>> THEN [L EXCEPT !.ret = anyChanged]
  ELSE LET W == WritePairL([L EXCEPT !.st = L0.st], n, pairs[1][1], pairs[1][2])
           L1 == IF W.ret THEN [W EXCEPT !.st = Put(L.st, pairs[1][1], W.st[pairs[1][1]])]
                 ELSE [W EXCEPT !.st = L.st]
       IN SetStatesSnapshotLoop(L1, L0, n, Tail(pairs), anyChanged \/ L1.ret)

SetStatesSnapshotL(L, n, pairs) ==
  LET L1 == SetStatesSnapshotLoop(L, L, n, pairs, FALSE)
  IN IF L1.ret THEN [StateTelemetryL(L1, n) EXCEPT !.ret = TRUE] ELSE L1

\* (mutant: the push does not depend on anyChanged)
SetStatesPushAlwaysL(L, n, pairs) ==
  LET L1 == SetStatesLoop(L, n, pairs, FALSE)
  IN [StateTelemetryL(L1, n) EXCEPT !.ret = L1.ret]

SetStatesL(L, n, pairs) ==
  LET L1 == SetStatesLoop(L, n, pairs, FALSE)
  IN IF L1.ret THEN [StateTelemetryL(L1, n) EXCEPT !.ret = TRUE] ELSE L1

\* (mutant: no tie-break on equal versions)
ShouldUpdateNoTie(version, origin, existing) == version > existing.version

\* (mutant: an equal version wins whatever the origin)
ShouldUpdateOnEqual(version, origin, existing) == version >= existing.version

\* The conflict rule of handleStateSet for a key that is present.
ShouldUpdate(version, origin, existing) ==
  \/ version > existing.version
  \/ version = existing.version /\ origin < existing.origin

\* (mutant: an accepted entry is broadcast again)
AcceptRebroadcastL(L, n, key, entry, oldValue) ==
  BroadcastStateL([L EXCEPT !.st = Put(@, key, entry),
                            !.fired = @ \o TriggerWatchers(stateWatchers[n], key, entry.value, oldValue)],
                  n, key)

\* (mutant: an accepted entry reaches the watchers but not the store)
AcceptNoStoreL(L, n, key, entry, oldValue) ==
  [L EXCEPT !.fired = @ \o TriggerWatchers(stateWatchers[n], key, entry.value, oldValue)]

\* The body of  if (shouldUpdate && oldValue != value)  in handleStateSet.
AcceptL(L, n, key, entry, oldValue) ==
  [L EXCEPT !.st = Put(@, key, entry),
            !.fired = @ \o TriggerWatchers(stateWatchers[n], key, entry.value, oldValue)]

\* handleStateSet without the test of an empty key.
HandleStateSetAnyKeyL(L, n, from, data) ==
  LET key == JsonOr(data, "k", "")
      value == JsonOr(data, "v", "")
      version == JsonOr(data, "ver", 0)
      origin == JsonOr(data, "org", from)
      has == key \in DOMAIN L.st
      oldValue == IF has THEN L.st[key].value ELSE ""
      shouldUpdate == IF ~has THEN TRUE ELSE ShouldUpdate(version, origin, L.st[key])
  IN IF shouldUpdate /\ oldValue # value
     THEN AcceptL(L, n, key, [value |-> value, version |-> version,
                               origin |-> origin, timestamp |-> now], oldValue)
     ELSE L

\* handleStateSet(from, data)
HandleStateSetL(L, n, from, data) ==
  LET key == JsonOr(data, "k", "")
      value == JsonOr(data, "v", "")
      version == JsonOr(data, "ver", 0)
      origin == JsonOr(data, "org", from)
      has == key \in DOMAIN L.st
      oldValue == IF has THEN L.st[key].value ELSE ""
      shouldUpdate == IF ~has THEN TRUE ELSE ShouldUpdate(version, origin, L.st[key])
  IN IF key = "" THEN L
     ELSE IF shouldUpdate /\ oldValue # value
          THEN AcceptL(L, n, key, [value |-> value, version |-> version,
                                    origin |-> origin, timestamp |-> now], oldValue)
          ELSE L

\* handleStateSync(from, data): handleStateSet on each element of data["s"].
RECURSIVE HandleStateSyncLoop(_, _, _, _)
HandleStateSyncLoop(L, n, from, arr) ==
  IF arr = <<>> THEN L
  ELSE HandleStateSyncLoop(HandleStateSetL(L, n, from, arr[1]), n, from, Tail(arr))

HandleStateSyncL(L, n, from, data) ==
  HandleStateSyncLoop(L, n, from, JsonOr(data, "s", <<>>))

\* pushTelemetryForNode(nodeId, data), reached through handleTelemetry
PushTelemetryForNodeL(L, n, nodeId, data) ==
  IF ~wifiConnected[n] \/ telemetryUrl[n] = "" THEN L
  ELSE [L EXCEPT !.http = Append(@, [req |-> "telemetry", node |-> nodeId, body |-> data])]

\* sendHeartbeat()
SendHeartbeatL(L, n) ==
  [L EXCEPT !.sent = Append(@, createMsg(n, MSG_HEARTBEAT,
      [role |-> myRole[n], up |-> UDiff(now, bootTime[n]) \div 1000,
       states |-> Cardinality(DOMAIN L.st)]))]

\* (mutant: the own id is left out of the candidates)
LowestOther(n) ==
  IF nodeList[n] = {} THEN n ELSE CHOOSE a \in nodeList[n] : \A b \in nodeList[n] : a <= b

\* electCoordinator(): the lowest of myId and the transport's node list.
Lowest(n) == CHOOSE a \in nodeList[n] \cup {n} : \A b \in nodeList[n] \cup {n} : a <= b

\* (mutant: a coordinator never steps down)
RoleSticky(n) == IF (nodeList[n] \cup {n}) \cap 1..(n - 1) = {} \/ myRole[n] = "COORD" THEN "COORD" ELSE "PEER"

RoleFor(n) == IF Lowest(n) = n THEN "COORD" ELSE "PEER"

\* (mutant: no peer is ever erased)
PrunedPeersNone(n) == peers[n]

\* pruneDeadPeers()
PrunedPeers(n) ==
  [p \in {q \in DOMAIN peers[n] : ~(UDiff(now, peers[n][q].lastSeen) > PEER_DEAD_MS)}
     |-> peers[n][p]]


(* ------------------------------ actions ------------------------------- *)

\* The envelopes a handler broadcast, as the transport carries them: one
\* copy for each node of the transport's node list.
Outgoing(n, sent) ==
  {[dst |-> dst, from |-> n, t |-> sent[i].t, n |-> sent[i].n, d |-> sent[i].d] :
     dst \in nodeList[n], i \in 1..Len(sent)}

StateSetsIn(sent) == Len(SelectSeq(sent, LAMBDA m : m.t = MSG_STATE_SET))

\* Commit the result L of a handler run on node n: consumed are the
\* messages it took from the transport, nw the value-changing local writes.
Commit(n, L, consumed, nw, op, arg) ==
  LET netAfter == (net \ consumed) \cup Outgoing(n, L.sent)
  IN /\ Cardinality(netAfter) <= MaxInFlight
     /\ wrote[n] + nw <= MaxWrites
     /\ net' = netAfter
     /\ sharedState' = [sharedState EXCEPT ![n] = L.st]
     /\ lastTelemetryPush' = [lastTelemetryPush EXCEPT ![n] = L.ltp]
     /\ lastStateTelemetryPush' = [lastStateTelemetryPush EXCEPT ![n] = L.lstp]
     /\ wrote' = [wrote EXCEPT ![n] = @ + nw]
     /\ last' = [op |-> op, node |-> n, arg |-> arg, ret |-> L.ret,
                 fired |-> L.fired, sent |-> L.sent, pushes |-> L.pushes, http |-> L.http]

\* bool setState(key, value)
SetState(n, key, value) ==
  LET L == SetStateL(Ctx(n), n, key, value)
  IN /\ Commit(n, L, {}, IF L.ret THEN 1 ELSE 0, "setState", [key |-> key, value |-> value])
     /\ UNCHANGED <<stateWatchers, memberVars, timerVars, configVars, otaVars, displayPower, now>>

\* bool setStates({{k, v}, ...})
SetStates(n, pairs) ==
  LET L == SetStatesL(Ctx(n), n, pairs)
  IN /\ Commit(n, L, {}, StateSetsIn(L.sent), "setStates", [pairs |-> pairs])
     /\ UNCHANGED <<stateWatchers, memberVars, timerVars, configVars, otaVars, displayPower, now>>

\* Callback ids are handed out in registration order.
Registered(n) == SumOver([k \in DOMAIN stateWatchers[n] |-> Len(stateWatchers[n][k])],
                         DOMAIN stateWatchers[n])

\* void watchState(key, callback)
WatchState(n, key) ==
  /\ Registered(n) < MaxWatchers
  /\ stateWatchers' = [stateWatchers EXCEPT ![n] =
        Put(@, key, (IF key \in DOMAIN @ THEN @[key] ELSE <<>>) \o <<Registered(n) + 1>>)]
  /\ last' = [op |-> "watchState", node |-> n, arg |-> [key |-> key],
              ret |-> FALSE, fired |-> <<>>, sent |-> <<>>, pushes |-> 0, http |-> <<>>]
  /\ UNCHANGED <<sharedState, memberVars, timerVars, telemVars, configVars, otaVars, displayPower, now, net, wrote>>

\* void broadcastFullState()  (public; also the serial command "sync")
BroadcastFullState(n) ==
  /\ Commit(n, BroadcastFullStateL(Ctx(n), n), {}, 0, "broadcastFullState", [none |-> TRUE])
  /\ UNCHANGED <<stateWatchers, memberVars, timerVars, configVars, otaVars, displayPower, now>>

\* void enableTelemetry(enable)
EnableTelemetry(n, enable) ==
  /\ telemetryEnabled' = [telemetryEnabled EXCEPT ![n] = enable]
  /\ last' = [op |-> "enableTelemetry", node |-> n, arg |-> [enable |-> enable],
              ret |-> FALSE, fired |-> <<>>, sent |-> <<>>, pushes |-> 0, http |-> <<>>]
  /\ UNCHANGED <<storeVars, memberVars, timerVars, telemVars, gatewayMode, telemetryUrl,
                 telemetryInterval, wifiConnected, bootTime, loopCallbacks, otaVars, displayPower, now, net, wrote>>

\* void setGatewayMode(enable)
SetGatewayMode(n, enable) ==
  /\ gatewayMode' = [gatewayMode EXCEPT ![n] = enable]
  /\ last' = [op |-> "setGatewayMode", node |-> n, arg |-> [enable |-> enable],
              ret |-> FALSE, fired |-> <<>>, sent |-> <<>>, pushes |-> 0, http |-> <<>>]
  /\ UNCHANGED <<storeVars, memberVars, timerVars, telemVars, telemetryEnabled, telemetryUrl,
                 telemetryInterval, wifiConnected, bootTime, loopCallbacks, otaVars, displayPower, now, net, wrote>>

\* void setTelemetryInterval(ms)
SetTelemetryInterval(n, ms) ==
  /\ telemetryInterval' = [telemetryInterval EXCEPT ![n] = ms]
  /\ last' = [op |-> "setTelemetryInterval", node |-> n, arg |-> [ms |-> ms],
              ret |-> FALSE, fired |-> <<>>, sent |-> <<>>, pushes |-> 0, http |-> <<>>]
  /\ UNCHANGED <<storeVars, memberVars, timerVars, telemVars, telemetryEnabled, gatewayMode,
                 telemetryUrl, wifiConnected, bootTime, loopCallbacks, otaVars, displayPower, now, net, wrote>>

\* void setTelemetryServer(url, apiKey)
SetTelemetryServer(n, url) ==
  /\ telemetryUrl' = [telemetryUrl EXCEPT ![n] = url]
  /\ last' = [op |-> "setTelemetryServer", node |-> n, arg |-> [url |-> url],
              ret |-> FALSE, fired |-> <<>>, sent |-> <<>>, pushes |-> 0, http |-> <<>>]
  /\ UNCHANGED <<storeVars, memberVars, timerVars, telemVars, telemetryEnabled, gatewayMode,
                 telemetryInterval, wifiConnected, bootTime, loopCallbacks, otaVars, displayPower, now, net, wrote>>

\* onReceive(from, msg) on node n for a decoded envelope {t, n, d}.
OnReceive(n, from, t, name, d, consumed) ==
  LET L0 == Ctx(n)
      L == CASE t = MSG_STATE_SET -> HandleStateSetL(L0, n, from, d)
             [] t = MSG_STATE_SYNC -> HandleStateSyncL(L0, n, from, d)
             [] t = MSG_STATE_REQ -> BroadcastFullStateL(L0, n)
             [] t = MSG_TELEMETRY /\ gatewayMode[n] -> PushTelemetryForNodeL(L0, n, from, d)
             [] OTHER -> L0
  IN /\ Commit(n, L, consumed, 0, "onReceive", [from |-> from, t |-> t, d |-> d])
     /\ IF t = MSG_HEARTBEAT
        THEN /\ peers' = [peers EXCEPT ![n] =
                  Put(@, from, [id |-> from, name |-> name, role |-> JsonOr(d, "role", "PEER"),
                                lastSeen |-> now, alive |-> TRUE])]
             /\ coordinatorId' = [coordinatorId EXCEPT ![n] = Lowest(n)]
             /\ myRole' = [myRole EXCEPT ![n] = RoleFor(n)]
        ELSE UNCHANGED <<peers, coordinatorId, myRole>>
     /\ UNCHANGED <<stateWatchers, nodeList, timerVars, configVars, otaVars, displayPower, now>>

\* onReceive(from, msg) on node n for a msg that deserializeJson rejects.
OnReceiveUnparsed(n, from) ==
  /\ Commit(n, Ctx(n), {}, 0, "onReceive", [from |-> from, json |-> FALSE])
  /\ UNCHANGED <<stateWatchers, memberVars, timerVars, configVars, otaVars, displayPower, now>>

\* void onNewConnection(nodeId): a heartbeat and the full state go out.
OnNewConnection(n, nodeId) ==
  /\ Commit(n, BroadcastFullStateL(SendHeartbeatL(Ctx(n), n), n), {}, 0,
            "onNewConnection", [nodeId |-> nodeId])
  /\ UNCHANGED <<stateWatchers, memberVars, timerVars, configVars, otaVars, displayPower, now>>

\* (mutant: the entry of the dropped peer is erased)
OnDroppedConnectionErases(n, nodeId) ==
  /\ peers' = [peers EXCEPT ![n] = [p \in DOMAIN @ \ {nodeId} |-> @[p]]]
  /\ coordinatorId' = [coordinatorId EXCEPT ![n] = Lowest(n)]
  /\ myRole' = [myRole EXCEPT ![n] = RoleFor(n)]
  /\ last' = [op |-> "onDroppedConnection", node |-> n, arg |-> [nodeId |-> nodeId],
              ret |-> FALSE, fired |-> <<>>, sent |-> <<>>, pushes |-> 0, http |-> <<>>]
  /\ UNCHANGED <<storeVars, nodeList, timerVars, telemVars, configVars, otaVars, displayPower, now, net, wrote>>

\* void onDroppedConnection(nodeId): the peer is marked dead, then election.
OnDroppedConnection(n, nodeId) ==
  /\ peers' = [peers EXCEPT ![n] =
        IF nodeId \in DOMAIN @ THEN [@ EXCEPT ![nodeId].alive = FALSE] ELSE @]
  /\ coordinatorId' = [coordinatorId EXCEPT ![n] = Lowest(n)]
  /\ myRole' = [myRole EXCEPT ![n] = RoleFor(n)]
  /\ last' = [op |-> "onDroppedConnection", node |-> n, arg |-> [nodeId |-> nodeId],
              ret |-> FALSE, fired |-> <<>>, sent |-> <<>>, pushes |-> 0, http |-> <<>>]
  /\ UNCHANGED <<storeVars, nodeList, timerVars, telemVars, configVars, otaVars, displayPower, now, net, wrote>>

\* void onChangedConnections(): election.
OnChangedConnections(n) ==
  /\ coordinatorId' = [coordinatorId EXCEPT ![n] = Lowest(n)]
  /\ myRole' = [myRole EXCEPT ![n] = RoleFor(n)]
  /\ last' = [op |-> "onChangedConnections", node |-> n, arg |-> [none |-> TRUE],
              ret |-> FALSE, fired |-> <<>>, sent |-> <<>>, pushes |-> 0, http |-> <<>>]
  /\ UNCHANGED <<storeVars, peers, nodeList, timerVars, telemVars, configVars, otaVars, displayPower, now, net, wrote>>

\* The transport changes the node list it reports to node n
\* (mesh.getNodeList()); the callbacks follow as steps of their own.
NodeListChange(n, S) ==
  /\ S # nodeList[n]
  /\ nodeList' = [nodeList EXCEPT ![n] = S]
  /\ last' = Idle("nodeList")
  /\ UNCHANGED <<storeVars, peers, myRole, coordinatorId, timerVars, telemVars,
                 configVars, otaVars, displayPower, now, net, wrote>>

\* The transport delivers message m of the set in flight.
Deliver(m) ==
  /\ m \in net
  /\ OnReceive(m.dst, m.from, m.t, m.n, m.d, {m})

\* The transport loses message m (the destination was unreachable).
Lose(m) ==
  /\ m \in net
  /\ net' = net \ {m}
  /\ last' = Idle("lose")
  /\ UNCHANGED <<storeVars, memberVars, timerVars, telemVars, configVars, otaVars, displayPower, now, wrote>>

\* Time passes: d ms, the clock staying within limit.
Tick(d, limit) ==
  /\ now + d <= limit
  /\ now' = (now + d) % ClockWrap
  /\ last' = Idle("tick")
  /\ UNCHANGED <<storeVars, memberVars, timerVars, telemVars, configVars, otaVars, displayPower, net, wrote>>

\* The loop callbacks of update(), invoked in registration order.
LoopCallsL(L, n) ==
  [L EXCEPT !.fired = @ \o [i \in 1..Len(loopCallbacks[n]) |->
                              [cb |-> loopCallbacks[n][i], loop |-> TRUE]]]

\* update() with the full-state sync ahead of the heartbeat.
UpdateSyncFirstL(L0, n) ==
  LET hbDue == UDiff(now, lastHeartbeat[n]) >= HEARTBEAT_INTERVAL
      syncDue == UDiff(now, lastStateSync[n]) >= STATE_SYNC_INTERVAL
      telDue == telemetryEnabled[n] /\ UDiff(now, lastTelemetryPush[n]) >= telemetryInterval[n]
      L1 == IF syncDue THEN BroadcastFullStateL(L0, n) ELSE L0
      L2 == IF hbDue THEN [SendHeartbeatL(L1, n) EXCEPT !.prs = PrunedPeers(n)] ELSE L1
      L3 == IF telDue THEN [TelemetryDispatchL(L2, n) EXCEPT !.ltp = now] ELSE L2
  IN LoopCallsL(L3, n)

\* The body of update() after mesh.update(): heartbeat and pruning,
\* full-state sync, telemetry, loop callbacks.
UpdateL(L0, n) ==
  LET hbDue == UDiff(now, lastHeartbeat[n]) >= HEARTBEAT_INTERVAL
      syncDue == UDiff(now, lastStateSync[n]) >= STATE_SYNC_INTERVAL
      telDue == telemetryEnabled[n] /\ UDiff(now, lastTelemetryPush[n]) >= telemetryInterval[n]
      L1 == IF hbDue THEN [SendHeartbeatL(L0, n) EXCEPT !.prs = PrunedPeers(n)] ELSE L0
      L2 == IF syncDue THEN BroadcastFullStateL(L1, n) ELSE L1
      L3 == IF telDue THEN [TelemetryDispatchL(L2, n) EXCEPT !.ltp = now] ELSE L2
  IN LoopCallsL(L3, n)

\* update() that also passes the gate of checkForOTAUpdates, stamping
\* lastOTACheck when a poll is due.
UpdateStampsOtaCheck(n) ==
  LET hbDue == UDiff(now, lastHeartbeat[n]) >= HEARTBEAT_INTERVAL
      syncDue == UDiff(now, lastStateSync[n]) >= STATE_SYNC_INTERVAL
      telDue == telemetryEnabled[n] /\ UDiff(now, lastTelemetryPush[n]) >= telemetryInterval[n]
      otaDue == /\ otaDistributionEnabled[n] /\ gatewayMode[n]
                /\ UDiff(now, lastOTACheck[n]) >= OTA_POLL_INTERVAL
      L == UpdateL(Ctx(n), n)
  IN /\ Commit(n, L, {}, 0, "update", [hb |-> hbDue, sync |-> syncDue, tel |-> telDue])
     /\ peers' = [peers EXCEPT ![n] = L.prs]
     /\ lastHeartbeat' = IF hbDue THEN [lastHeartbeat EXCEPT ![n] = now] ELSE lastHeartbeat
     /\ lastStateSync' = IF syncDue THEN [lastStateSync EXCEPT ![n] = now] ELSE lastStateSync
     /\ lastOTACheck' = IF otaDue THEN [lastOTACheck EXCEPT ![n] = now] ELSE lastOTACheck
     /\ UNCHANGED <<stateWatchers, myRole, coordinatorId, nodeList, configVars,
                    otaDistributionEnabled, currentOTAUpdate, otaFirmwareSize,
                    otaLastPartSent, otaTransferStarted, otaSender, displayPower, now>>

\* void update() after mesh.update() has handed the inbound messages to
\* onReceive (the Deliver steps): heartbeat and pruning, full-state sync,
\* telemetry, loop callbacks.
Update(n) ==
  LET hbDue == UDiff(now, lastHeartbeat[n]) >= HEARTBEAT_INTERVAL
      syncDue == UDiff(now, lastStateSync[n]) >= STATE_SYNC_INTERVAL
      telDue == telemetryEnabled[n] /\ UDiff(now, lastTelemetryPush[n]) >= telemetryInterval[n]
      L == UpdateL(Ctx(n), n)
  IN /\ Commit(n, L, {}, 0, "update", [hb |-> hbDue, sync |-> syncDue, tel |-> telDue])
     /\ peers' = [peers EXCEPT ![n] = L.prs]
     /\ lastHeartbeat' = IF hbDue THEN [lastHeartbeat EXCEPT ![n] = now] ELSE lastHeartbeat
     /\ lastStateSync' = IF syncDue THEN [lastStateSync EXCEPT ![n] = now] ELSE lastStateSync
     /\ UNCHANGED <<stateWatchers, myRole, coordinatorId, nodeList, configVars, otaVars, displayPower, now>>

\* void onLoop(callback): callback ids are handed out in registration order.
OnLoop(n) ==
  /\ Len(loopCallbacks[n]) < MaxWatchers
  /\ loopCallbacks' = [loopCallbacks EXCEPT ![n] = Append(@, Len(@) + 1)]
  /\ last' = [op |-> "onLoop", node |-> n, arg |-> [none |-> TRUE],
              ret |-> FALSE, fired |-> <<>>, sent |-> <<>>, pushes |-> 0, http |-> <<>>]
  /\ UNCHANGED <<storeVars, memberVars, timerVars, telemVars, telemetryEnabled, gatewayMode,
                 telemetryUrl, telemetryInterval, wifiConnected, bootTime, otaVars, displayPower, now, net,
                 wrote>>

(* ------------------------- OTA distribution --------------------------- *)

\* OTAUpdateInfo after the constructor: active false, updateId 0.
NoOTAUpdate ==
  [updateId |-> 0, firmwareId |-> 0, nodeType |-> "", version |-> "",
   numParts |-> 0, sizeBytes |-> 0, active |-> FALSE]

\* The OTA fields of node n while one handler runs; calls collects the HTTP
\* requests and transport calls it makes, ret its return value.
OtaCtx(n) ==
  [cur |-> currentOTAUpdate[n], size |-> otaFirmwareSize[n],
   lastPart |-> otaLastPartSent[n], started |-> otaTransferStarted[n],
   sender |-> otaSender[n], lastCheck |-> lastOTACheck[n], calls |-> <<>>, ret |-> FALSE]

\* reportOTAStart / reportOTAComplete / reportOTAFail: one POST, or nothing
\* without a server URL or WiFi.
ReportOTAL(O, n, what, updateId) ==
  IF telemetryUrl[n] = "" \/ ~wifiConnected[n] THEN O
  ELSE [O EXCEPT !.calls = Append(@, [req |-> what, id |-> updateId])]

\* bool pollPendingOTAUpdates(): resp is the server's answer to the GET.
PollPendingOTAUpdatesL(O, n, resp) ==
  IF telemetryUrl[n] = "" THEN [O EXCEPT !.ret = FALSE]
  ELSE IF O.cur.active /\ O.started THEN [O EXCEPT !.ret = FALSE]
  ELSE LET O1 == [O EXCEPT !.calls = Append(@, [req |-> "pending", id |-> 0])]
       IN IF resp.code # 200 \/ ~resp.json \/ Len(resp.updates) = 0
          THEN [O1 EXCEPT !.ret = FALSE]
          ELSE LET update == resp.updates[1]
               IN [O1 EXCEPT !.cur = [updateId |-> JsonOr(update, "update_id", 0),
                                      firmwareId |-> JsonOr(update, "firmware_id", 0),
                                      nodeType |-> JsonOr(update, "node_type", ""),
                                      version |-> JsonOr(update, "version", ""),
                                      numParts |-> JsonOr(update, "num_parts", 0),
                                      sizeBytes |-> JsonOr(update, "size_bytes", 0),
                                      active |-> TRUE],
                              !.ret = TRUE]

\* bool downloadOTAFirmware(firmwareId)
DownloadOTAFirmwareL(O, n, firmwareId) ==
  IF telemetryUrl[n] = "" THEN [O EXCEPT !.ret = FALSE]
  ELSE [O EXCEPT !.size = O.cur.sizeBytes, !.ret = TRUE]

\* startOTADistribution() that clears active on a rejected offer without
\* reporting the failure.
StartOTADistributionSilentRejectL(O, n, offerOk) ==
  IF O.size = 0 THEN [O EXCEPT !.cur.active = FALSE]
  ELSE LET O1 == [O EXCEPT !.lastPart = -1, !.started = FALSE]
           O2 == ReportOTAL(O1, n, "start", O1.cur.updateId)
           O3 == [O2 EXCEPT !.sender = [set |-> TRUE, firmwareId |-> O2.cur.firmwareId],
                            !.calls = Append(@, [req |-> "initOTASend", id |-> O2.cur.firmwareId])]
           O4 == [O3 EXCEPT !.calls = Append(@, [req |-> "offerOTA", id |-> O3.cur.numParts])]
       IN IF offerOk THEN O4 ELSE [O4 EXCEPT !.cur.active = FALSE]

\* void startOTADistribution(): offerOk is whether the transport's offerOTA
\* returned a task.
StartOTADistributionL(O, n, offerOk) ==
  IF O.size = 0 THEN [O EXCEPT !.cur.active = FALSE]
  ELSE LET O1 == [O EXCEPT !.lastPart = -1, !.started = FALSE]
           O2 == ReportOTAL(O1, n, "start", O1.cur.updateId)
           O3 == [O2 EXCEPT !.sender = [set |-> TRUE, firmwareId |-> O2.cur.firmwareId],
                            !.calls = Append(@, [req |-> "initOTASend", id |-> O2.cur.firmwareId])]
           O4 == [O3 EXCEPT !.calls = Append(@, [req |-> "offerOTA", id |-> O3.cur.numParts])]
       IN IF offerOk THEN O4
          ELSE [ReportOTAL(O4, n, "fail", O4.cur.updateId) EXCEPT !.cur.active = FALSE]

\* checkForOTAUpdates() without the test of currentOTAUpdate.active.
CheckForOTAUpdatesPollsActiveL(O, n, resp, offerOk) ==
  IF ~otaDistributionEnabled[n] \/ ~gatewayMode[n] THEN O
  ELSE IF UDiff(now, O.lastCheck) < OTA_POLL_INTERVAL THEN O
  ELSE LET O1 == [O EXCEPT !.lastCheck = now]
       IN IF ~wifiConnected[n] THEN O1
          ELSE LET O2 == PollPendingOTAUpdatesL(O1, n, resp)
               IN IF ~O2.ret THEN O2
                  ELSE LET O3 == DownloadOTAFirmwareL(O2, n, O2.cur.firmwareId)
                       IN IF ~O3.ret THEN O3 ELSE StartOTADistributionL(O3, n, offerOk)

\* void checkForOTAUpdates()
CheckForOTAUpdatesL(O, n, resp, offerOk) ==
  IF ~otaDistributionEnabled[n] \/ ~gatewayMode[n] THEN O
  ELSE IF UDiff(now, O.lastCheck) < OTA_POLL_INTERVAL THEN O
  ELSE LET O1 == [O EXCEPT !.lastCheck = now]
       IN IF O1.cur.active THEN O1
          ELSE IF ~wifiConnected[n] THEN O1
          ELSE LET O2 == PollPendingOTAUpdatesL(O1, n, resp)
               IN IF ~O2.ret THEN O2
                  ELSE LET O3 == DownloadOTAFirmwareL(O2, n, O2.cur.firmwareId)
                       IN IF ~O3.ret THEN O3 ELSE StartOTADistributionL(O3, n, offerOk)

\* The sender callback asking for a whole part whatever is left of the
\* firmware.
OtaSendWholePartL(O, n, partNo, fetch) ==
  LET offset == partNo * OTA_PART_SIZE
  IN IF offset >= O.size THEN [O EXCEPT !.ret = 0]
     ELSE LET O1 == [O EXCEPT !.calls = Append(@, [req |-> "download", id |-> O.sender.firmwareId,
                                                   lo |-> offset, hi |-> offset + OTA_PART_SIZE - 1])]
          IN IF fetch # "ok" THEN [O1 EXCEPT !.ret = 0]
             ELSE LET O2 == [O1 EXCEPT !.started = TRUE, !.lastPart = partNo]
                      O3 == IF partNo + 1 >= O2.cur.numParts
                            THEN [ReportOTAL(O2, n, "complete", O2.cur.updateId)
                                    EXCEPT !.cur.active = FALSE]
                            ELSE O2
                  IN [O3 EXCEPT !.ret = OTA_PART_SIZE]

\* The sender callback tracking the progress before the read is checked.
OtaSendTrackEarlyL(O, n, partNo, fetch) ==
  LET offset == partNo * OTA_PART_SIZE
      remaining == O.size - offset
      chunkSize == IF OTA_PART_SIZE < remaining THEN OTA_PART_SIZE ELSE remaining
  IN IF offset >= O.size THEN [O EXCEPT !.ret = 0]
     ELSE LET O1 == [O EXCEPT !.calls = Append(@, [req |-> "download", id |-> O.sender.firmwareId,
                                                   lo |-> offset, hi |-> offset + chunkSize - 1])]
          IN IF fetch = "http_error" THEN [O1 EXCEPT !.ret = 0]
             ELSE LET O2 == [O1 EXCEPT !.started = TRUE, !.lastPart = partNo]
                  IN IF fetch = "short" THEN [O2 EXCEPT !.ret = 0]
                     ELSE LET O3 == IF partNo + 1 >= O2.cur.numParts
                                    THEN [ReportOTAL(O2, n, "complete", O2.cur.updateId)
                                            EXCEPT !.cur.active = FALSE]
                                    ELSE O2
                          IN [O3 EXCEPT !.ret = chunkSize]

\* The callback given to initOTASend, called by the transport for part
\* partNo; fetch is the outcome of the ranged download: "ok", "http_error"
\* (a status other than 200/206) or "short" (fewer bytes than the chunk).
OtaSendL(O, n, partNo, fetch) ==
  LET offset == partNo * OTA_PART_SIZE
      remaining == O.size - offset
      chunkSize == IF OTA_PART_SIZE < remaining THEN OTA_PART_SIZE ELSE remaining
  IN IF offset >= O.size THEN [O EXCEPT !.ret = 0]
     ELSE LET O1 == [O EXCEPT !.calls = Append(@, [req |-> "download", id |-> O.sender.firmwareId,
                                                   lo |-> offset, hi |-> offset + chunkSize - 1])]
          IN IF fetch = "http_error" THEN [O1 EXCEPT !.ret = 0]
             ELSE IF fetch = "short" THEN [O1 EXCEPT !.ret = 0]
             ELSE LET O2 == [O1 EXCEPT !.started = TRUE, !.lastPart = partNo]
                      O3 == IF partNo + 1 >= O2.cur.numParts
                            THEN [ReportOTAL(O2, n, "complete", O2.cur.updateId)
                                    EXCEPT !.cur.active = FALSE]
                            ELSE O2
                  IN [O3 EXCEPT !.ret = chunkSize]

\* Write the OTA fields of a handler run back and record the step.
OtaCommit(n, O, op, arg) ==
  /\ currentOTAUpdate' = [currentOTAUpdate EXCEPT ![n] = O.cur]
  /\ otaFirmwareSize' = [otaFirmwareSize EXCEPT ![n] = O.size]
  /\ otaLastPartSent' = [otaLastPartSent EXCEPT ![n] = O.lastPart]
  /\ otaTransferStarted' = [otaTransferStarted EXCEPT ![n] = O.started]
  /\ otaSender' = [otaSender EXCEPT ![n] = O.sender]
  /\ lastOTACheck' = [lastOTACheck EXCEPT ![n] = O.lastCheck]
  /\ last' = [op |-> op, node |-> n, arg |-> arg, ret |-> O.ret,
              fired |-> <<>>, sent |-> <<>>, pushes |-> 0, http |-> O.calls]
  /\ UNCHANGED <<storeVars, memberVars, timerVars, telemVars, configVars,
                 otaDistributionEnabled, displayPower, now, net, wrote>>

\* void enableOTADistribution(enable)
EnableOTADistribution(n, enable) ==
  /\ otaDistributionEnabled' = [otaDistributionEnabled EXCEPT ![n] = enable]
  /\ last' = [op |-> "enableOTADistribution", node |-> n, arg |-> [enable |-> enable],
              ret |-> FALSE, fired |-> <<>>, sent |-> <<>>, pushes |-> 0, http |-> <<>>]
  /\ UNCHANGED <<storeVars, memberVars, timerVars, telemVars, configVars, lastOTACheck,
                 currentOTAUpdate, otaFirmwareSize, otaLastPartSent, otaTransferStarted,
                 otaSender, displayPower, now, net, wrote>>

\* void checkForOTAUpdates(), called from the application's loop().  The
\* history notes whether the call was scheduled: distribution enabled,
\* gateway mode, and the poll interval elapsed.
CheckForOTAUpdates(n, resp, offerOk) ==
  OtaCommit(n, CheckForOTAUpdatesL(OtaCtx(n), n, resp, offerOk), "checkForOTAUpdates",
            [resp |-> resp, offerOk |-> offerOk,
             scheduled |-> /\ otaDistributionEnabled[n] /\ gatewayMode[n]
                           /\ UDiff(now, lastOTACheck[n]) >= OTA_POLL_INTERVAL])

\* The transport asks the registered sender callback for part partNo.
OtaDataRequest(n, partNo, fetch) ==
  /\ otaSender[n].set
  /\ OtaCommit(n, OtaSendL(OtaCtx(n), n, partNo, fetch), "otaDataRequest",
               [partNo |-> partNo, fetch |-> fetch])

\* WiFi.status() changes.
WifiStatus(n, up) ==
  /\ wifiConnected' = [wifiConnected EXCEPT ![n] = up]
  /\ last' = Idle("wifi")
  /\ UNCHANGED <<storeVars, memberVars, timerVars, telemVars, telemetryEnabled, gatewayMode,
                 telemetryUrl, telemetryInterval, bootTime, loopCallbacks, otaVars, displayPower, now, net, wrote>>

(* ----------------------- DisplayPowerManager --------------------------- *)

\* DisplayPowerManager(): the field initialisers of the class and the
\* constructor, which leaves no wake button configured.
NewDisplayPowerManager ==
  [type |-> "NONE", oled |-> FALSE, sendTftCommand |-> FALSE, wakeDelayMs |-> 120,
   sleepTimeoutMs |-> DISPLAY_SLEEP_TIMEOUT_MS, lastActivityMs |-> 0, asleep |-> FALSE,
   wakeButtons |-> <<>>, onSleep |-> FALSE, onWake |-> FALSE]

\* The handler-local view of a DisplayPowerManager call: the object, the
\* value of millis(), the callbacks invoked and the display commands sent.
DisplayCtx ==
  [dp |-> displayPower, t |-> now, cbs |-> <<>>, cmds |-> <<>>]

IsTft(type) == type \in {"GC9A01_TFT", "ILI9341_TFT"}

\* void sendSleepCommand()
SendSleepCommandL(D) ==
  IF D.dp.type = "SSD1306_OLED" /\ D.dp.oled
    THEN [D EXCEPT !.cmds = Append(@, "SSD1306_DISPLAYOFF")]
  ELSE IF IsTft(D.dp.type) /\ D.dp.sendTftCommand
    THEN [D EXCEPT !.cmds = Append(@, "SLPIN")]
  ELSE D

\* void sendWakeCommand(): a TFT is given wakeDelayMs to wake, during which
\* millis() advances.
SendWakeCommandL(D) ==
  IF D.dp.type = "SSD1306_OLED" /\ D.dp.oled
    THEN [D EXCEPT !.cmds = Append(@, "SSD1306_DISPLAYON")]
  ELSE IF IsTft(D.dp.type) /\ D.dp.sendTftCommand
    THEN [D EXCEPT !.cmds = Append(@, "SLPOUT"), !.t = (@ + D.dp.wakeDelayMs) % ClockWrap]
  ELSE D

\* void sleep() with every call of the callback: the mutant of sleep().
DisplaySleepAlwaysL(D) ==
  LET D1 == SendSleepCommandL([D EXCEPT !.dp.asleep = TRUE])
  IN IF D1.dp.onSleep THEN [D1 EXCEPT !.cbs = Append(@, "onSleep")] ELSE D1

\* void sleep()
DisplaySleepL(D) ==
  IF D.dp.asleep THEN D
  ELSE LET D1 == SendSleepCommandL([D EXCEPT !.dp.asleep = TRUE])
       IN IF D1.dp.onSleep THEN [D1 EXCEPT !.cbs = Append(@, "onSleep")] ELSE D1

\* void wake()
DisplayWakeL(D) ==
  IF ~D.dp.asleep THEN [D EXCEPT !.dp.lastActivityMs = D.t]
  ELSE LET D1 == SendWakeCommandL([D EXCEPT !.dp.asleep = FALSE, !.dp.lastActivityMs = D.t])
       IN IF D1.dp.onWake THEN [D1 EXCEPT !.cbs = Append(@, "onWake")] ELSE D1

\* void resetActivity()
ResetActivityL(D) ==
  LET D1 == [D EXCEPT !.dp.lastActivityMs = D.t]
  IN IF D1.dp.asleep THEN DisplayWakeL(D1) ELSE D1

\* The loop of pollWakeButtons() from button i on: pins[i] is what
\* digitalRead returns for button i, t0 the millis() read before the loop.
RECURSIVE PollWakeButtonsLoop(_, _, _, _)
PollWakeButtonsLoop(D, pins, i, t0) ==
  IF i > Len(D.dp.wakeButtons) THEN D
  ELSE LET btn == D.dp.wakeButtons[i]
           changed == /\ btn.configured
                      /\ pins[i] # btn.lastState
                      /\ UDiff(t0, btn.lastChangeMs) > DPM_DEBOUNCE_MS
           pressed == IF btn.activeLow THEN ~pins[i] ELSE pins[i]
           D1 == [D EXCEPT !.dp.wakeButtons[i].lastChangeMs = t0,
                           !.dp.wakeButtons[i].lastState = pins[i]]
       IN IF ~changed THEN PollWakeButtonsLoop(D, pins, i + 1, t0)
          ELSE IF pressed THEN PollWakeButtonsLoop(ResetActivityL(D1), pins, i + 1, t0)
          ELSE PollWakeButtonsLoop(D1, pins, i + 1, t0)

\* void pollWakeButtons()
PollWakeButtonsL(D, pins) == PollWakeButtonsLoop(D, pins, 1, D.t)

\* void update() with the sleep test made on a timeout of 0 as well: the
\* mutant of update().
DisplayUpdateNoZeroL(D, pins) ==
  IF D.dp.type = "NONE" THEN D
  ELSE LET D1 == PollWakeButtonsL(D, pins)
       IN IF ~D1.dp.asleep /\ UDiff(D1.t, D1.dp.lastActivityMs) > D1.dp.sleepTimeoutMs
            THEN DisplaySleepL(D1)
            ELSE D1

\* void update()
DisplayUpdateL(D, pins) ==
  IF D.dp.type = "NONE" THEN D
  ELSE LET D1 == PollWakeButtonsL(D, pins)
       IN IF /\ ~D1.dp.asleep
             /\ D1.dp.sleepTimeoutMs > 0
             /\ UDiff(D1.t, D1.dp.lastActivityMs) > D1.dp.sleepTimeoutMs
            THEN DisplaySleepL(D1)
            ELSE D1

\* unsigned long getIdleTime()
getIdleTime == UDiff(now, displayPower.lastActivityMs)

\* A call of the DisplayPowerManager object takes its effect.
DisplayCommit(D, op, arg) ==
  /\ displayPower' = D.dp
  /\ now' = D.t
  /\ last' = [op |-> op, node |-> 0, arg |-> arg, ret |-> FALSE,
              fired |-> D.cbs, sent |-> D.cmds, pushes |-> 0, http |-> <<>>]
  /\ UNCHANGED <<storeVars, memberVars, timerVars, telemVars, configVars, otaVars, net, wrote>>

\* void begin(type)
DisplayBegin(type) ==
  DisplayCommit([DisplayCtx EXCEPT !.dp.type = type, !.dp.lastActivityMs = now,
                                   !.dp.asleep = FALSE],
                "begin", [type |-> type])

\* void setOledDisplay(display)
SetOledDisplay ==
  DisplayCommit([DisplayCtx EXCEPT !.dp.oled = TRUE], "setOledDisplay", [none |-> TRUE])

\* void setTftCommandCallback(sendCommand)
SetTftCommandCallback ==
  DisplayCommit([DisplayCtx EXCEPT !.dp.sendTftCommand = TRUE], "setTftCommandCallback",
                [none |-> TRUE])

\* void setSleepTimeout(timeoutMs)
SetSleepTimeout(timeoutMs) ==
  DisplayCommit([DisplayCtx EXCEPT !.dp.sleepTimeoutMs = timeoutMs], "setSleepTimeout",
                [timeoutMs |-> timeoutMs])

\* void addWakeButton(pin, activeLow): pin is what digitalRead returns.
AddWakeButton(pin, activeLow) ==
  DisplayCommit(IF Len(displayPower.wakeButtons) >= DPM_MAX_WAKE_BUTTONS THEN DisplayCtx
                ELSE [DisplayCtx EXCEPT !.dp.wakeButtons =
                        Append(@, [activeLow |-> activeLow, lastState |-> pin,
                                   lastChangeMs |-> now, configured |-> TRUE])],
                "addWakeButton", [pin |-> pin, activeLow |-> activeLow])

\* void onSleep(callback)
OnSleep ==
  DisplayCommit([DisplayCtx EXCEPT !.dp.onSleep = TRUE], "onSleep", [none |-> TRUE])

\* void onWake(callback)
OnWake ==
  DisplayCommit([DisplayCtx EXCEPT !.dp.onWake = TRUE], "onWake", [none |-> TRUE])

\* void update(): pins are the readings of the wake buttons.
DisplayUpdate(pins) ==
  DisplayCommit(DisplayUpdateL(DisplayCtx, pins), "display.update", [pins |-> pins])

\* void resetActivity()
ResetActivity == DisplayCommit(ResetActivityL(DisplayCtx), "resetActivity", [none |-> TRUE])

\* void wake()
DisplayWake == DisplayCommit(DisplayWakeL(DisplayCtx), "wake", [none |-> TRUE])

\* void sleep()
DisplaySleep == DisplayCommit(DisplaySleepL(DisplayCtx), "sleep", [none |-> TRUE])

(* ------------------------------- Init --------------------------------- *)


\* The fields other than the store after the constructor and begin(): myId
\* is the transport's id.
InitFields ==
  /\ stateWatchers = [n \in Nodes |-> EmptyMap]
  /\ peers = [n \in Nodes |-> EmptyMap]
  /\ myRole = [n \in Nodes |-> "PEER"]
  /\ coordinatorId = [n \in Nodes |-> 0]
  /\ lastHeartbeat = [n \in Nodes |-> 0]
  /\ lastStateSync = [n \in Nodes |-> 0]
  /\ lastTelemetryPush = [n \in Nodes |-> 0]
  /\ lastStateTelemetryPush = [n \in Nodes |-> 0]
  /\ telemetryEnabled = [n \in Nodes |-> FALSE]
  /\ gatewayMode = [n \in Nodes |-> FALSE]
  /\ telemetryUrl = [n \in Nodes |-> ""]
  /\ telemetryInterval = [n \in Nodes |-> TELEMETRY_INTERVAL]
  /\ wifiConnected = [n \in Nodes |-> TRUE]
  /\ bootTime = [n \in Nodes |-> 0]
  /\ loopCallbacks = [n \in Nodes |-> <<>>]
  /\ otaDistributionEnabled = [n \in Nodes |-> FALSE]
  /\ lastOTACheck = [n \in Nodes |-> 0]
  /\ currentOTAUpdate = [n \in Nodes |-> NoOTAUpdate]
  /\ otaFirmwareSize = [n \in Nodes |-> 0]
  /\ otaLastPartSent = [n \in Nodes |-> -1]
  /\ otaTransferStarted = [n \in Nodes |-> FALSE]
  /\ otaSender = [n \in Nodes |-> [set |-> FALSE, firmwareId |-> 0]]
  /\ displayPower = NewDisplayPowerManager
  /\ now = 0
  /\ net = {}
  /\ last = Idle("none")
  /\ wrote = [n \in Nodes |-> 0]

\* A node that has booted and joined nothing yet: the store is empty.
InitNode ==
  /\ sharedState = [n \in Nodes |-> EmptyMap]
  /\ InitFields

(* --------------------------- specifications --------------------------- *)

\* The replicated store of a closed mesh: local writes and full-state
\* broadcasts on every node, the transport delivering or losing messages.
\* The application may stop writing (GoQuiet); the history then records the
\* full-state syncs sent afterwards (fresh) and who processed whose (got).
MeshKeys == {"x"}
MeshValues == {"", "a"}

\* The transport has connected every node to every other.
FullMesh == [n \in Nodes |-> Nodes \ {n}]

Init ==
  /\ InitNode
  /\ nodeList = FullMesh
  /\ scn = [quiet |-> FALSE, fresh |-> {}, got |-> [n \in Nodes |-> {}]]

MeshWrite ==
  /\ ~scn.quiet
  /\ \E n \in Nodes, k \in MeshKeys, v \in MeshValues : SetState(n, k, v)
  /\ UNCHANGED scn

GoQuiet ==
  /\ ~scn.quiet
  /\ scn' = [scn EXCEPT !.quiet = TRUE]
  /\ last' = Idle("quiet")
  /\ UNCHANGED <<storeVars, memberVars, timerVars, telemVars, configVars, otaVars, displayPower, now, net, wrote>>

MeshSync ==
  \E n \in Nodes :
    /\ BroadcastFullState(n)
    /\ scn' = IF scn.quiet
              THEN [scn EXCEPT !.fresh = @ \cup Outgoing(n, last'.sent)]
              ELSE scn

MeshDeliver ==
  \E m \in net :
    /\ Deliver(m)
    /\ scn' = IF m \in scn.fresh
              THEN [scn EXCEPT !.got[m.dst] = @ \cup {m.from}, !.fresh = @ \ {m}]
              ELSE scn

MeshLose ==
  \E m \in net :
    /\ Lose(m)
    /\ scn' = [scn EXCEPT !.fresh = @ \ {m}]

Next == MeshWrite \/ GoQuiet \/ MeshSync \/ MeshDeliver \/ MeshLose

Spec == Init /\ [][Next]_vars

\* One node under an arbitrary environment: the application writes, the
\* transport hands in any STATE_SET or STATE_SYNC envelope, well-formed or
\* with fields missing.  No other node is connected (broadcasts reach nobody).
Me == NumNodes
OriginIds == 1..(NumNodes + 1)
StoreValues == {"", "a", "b"}

InboundData ==
  [k : {"k"}, v : StoreValues, ver : 0..MaxVersion, org : OriginIds]
    \cup [k : {"k"}, v : {"a"}, ver : {1}]
    \cup [k : {"k"}, v : {"a"}, org : {1}]
    \cup [k : {"k"}, ver : {MaxVersion}, org : {1}]
    \cup [v : {"a"}, ver : {1}, org : {1}]
    \cup [k : {""}, v : {"a"}, ver : {MaxVersion}, org : {1}]

SyncData ==
  LET E == [k : {"k"}, v : {"", "a"}, ver : {MaxVersion}, org : {1, NumNodes + 1}]
  IN {<<>>} \cup {<<e>> : e \in E} \cup {<<e, f>> : e \in E, f \in E}

InitOne ==
  /\ InitNode
  /\ nodeList = [n \in Nodes |-> {}]
  /\ scn = [quiet |-> FALSE]

StoreSetState == \E v \in StoreValues : SetState(Me, "k", v) /\ UNCHANGED scn

StoreStateSet ==
  \E from \in OriginIds \ {Me}, d \in InboundData :
     OnReceive(Me, from, MSG_STATE_SET, from, d, {}) /\ UNCHANGED scn

StoreStateSync ==
  \E arr \in SyncData : OnReceive(Me, 1, MSG_STATE_SYNC, 1, [s |-> arr], {}) /\ UNCHANGED scn

StoreBatches ==
  LET P == {<<"k", "">>, <<"k", "a">>}
  IN {<<>>} \cup {<<p>> : p \in P} \cup {<<p, q>> : p \in P, q \in P}

StoreSetStates == \E pairs \in StoreBatches : SetStates(Me, pairs) /\ UNCHANGED scn

NextStore == StoreSetState \/ StoreSetStates \/ StoreStateSet \/ StoreStateSync

SpecStore == InitOne /\ [][NextStore]_vars

\* One node with watchers: the application registers watchers and writes
\* single keys and batches; the transport hands in STATE_SET and STATE_SYNC.
WatchKeys == {"k", "*"}
WatchValues == {"", "a"}

WatchInbound == [k : WatchKeys, v : WatchValues, ver : {1, MaxVersion}, org : {1}]

BatchPairs ==
  LET P == {<<"k", "">>, <<"k", "a">>, <<"*", "a">>}
  IN {<<>>} \cup {<<p>> : p \in P} \cup {<<p, q>> : p \in P, q \in P}

WatchSetState == \E k \in WatchKeys, v \in WatchValues : SetState(Me, k, v) /\ UNCHANGED scn

WatchSetStates == \E pairs \in BatchPairs : SetStates(Me, pairs) /\ UNCHANGED scn

WatchRegister == \E k \in WatchKeys : WatchState(Me, k) /\ UNCHANGED scn

WatchStateSet ==
  \E d \in WatchInbound : OnReceive(Me, 1, MSG_STATE_SET, 1, d, {}) /\ UNCHANGED scn

WatchSyncData ==
  LET E == [k : {"k"}, v : WatchValues, ver : {MaxVersion}, org : {1}]
  IN {<<e, f>> : e \in E, f \in E}

WatchStateSync ==
  \E arr \in WatchSyncData :
     OnReceive(Me, 1, MSG_STATE_SYNC, 1, [s |-> arr], {}) /\ UNCHANGED scn

NextWatch ==
  WatchSetState \/ WatchSetStates \/ WatchRegister \/ WatchStateSet \/ WatchStateSync

SpecWatch == InitOne /\ [][NextWatch]_vars

\* One node, local API only: the application registers watchers, writes,
\* switches telemetry and gateway mode; the clock advances.
LocalValues == {"", "a"}

LocalSetState == \E v \in LocalValues : SetState(Me, "k", v) /\ UNCHANGED scn

LocalRegister == \E k \in WatchKeys : WatchState(Me, k) /\ UNCHANGED scn

LocalTelemetry == \E b \in BOOLEAN : EnableTelemetry(Me, b) /\ UNCHANGED scn

LocalGateway == \E b \in BOOLEAN : SetGatewayMode(Me, b) /\ UNCHANGED scn

LocalTick ==
  /\ Tick(STATE_TELEMETRY_MIN_INTERVAL \div 2, 2 * STATE_TELEMETRY_MIN_INTERVAL)
  /\ UNCHANGED scn

NextLocal == LocalSetState \/ LocalRegister \/ LocalTelemetry \/ LocalGateway \/ LocalTick

SpecLocal == InitOne /\ [][NextLocal]_vars

\* Two nodes write the same key concurrently: every node starts with the
\* same entry for "x"; two nodes each set "x" once, to different values,
\* before processing any STATE_SET; the transport then delivers.  The
\* history records who wrote what and the deliveries made.
RaceValues == {"a", "b", "d"}

\* Entries a mesh can have replicated: an empty value is replicated only
\* as the overwrite of a non-empty one.
RaceEntries ==
  {e \in [value : {"", "c"}, version : 1..MaxVersion, origin : OriginIds, timestamp : {0}] :
     e.value = "" => e.version >= 2}

InitRace ==
  /\ InitFields
  /\ nodeList = FullMesh
  /\ \E e \in RaceEntries : sharedState = [n \in Nodes |-> Put(EmptyMap, "x", e)]
  /\ scn = [val |-> EmptyMap, seen |-> {}]

RaceWrite ==
  \E n \in Nodes, v \in RaceValues :
    /\ n \notin DOMAIN scn.val
    /\ Cardinality(DOMAIN scn.val) < 2
    /\ scn.seen = {}
    /\ \A w \in DOMAIN scn.val : scn.val[w] # v
    /\ SetState(n, "x", v)
    /\ scn' = [scn EXCEPT !.val = Put(@, n, v)]

RaceDeliver ==
  \E m \in net :
    /\ Cardinality(DOMAIN scn.val) = 2
    /\ Deliver(m)
    /\ scn' = [scn EXCEPT !.seen = @ \cup {<<m.from, m.dst>>}]

NextRace == RaceWrite \/ RaceDeliver

SpecRace == InitRace /\ [][NextRace]_vars

\* A lost eager broadcast: on a fresh mesh one node sets "k" once, within
\* the first sync period; the transport loses every STATE_SET and delivers
\* everything else; the clock advances and every node runs update() when a
\* timer of its is due.
HealValues == {"", "v"}

InitHeal ==
  /\ InitNode
  /\ nodeList = FullMesh
  /\ scn = [writer |-> 0, lost |-> FALSE]

HealWrite ==
  \E n \in Nodes, v \in HealValues :
    /\ scn.writer = 0
    /\ now < STATE_SYNC_INTERVAL
    /\ SetState(n, "k", v)
    /\ scn' = [scn EXCEPT !.writer = n]

HealLose ==
  \E m \in net :
    /\ m.t = MSG_STATE_SET
    /\ Lose(m)
    /\ scn' = [scn EXCEPT !.lost = TRUE]

HealDeliver ==
  \E m \in net :
    /\ m.t # MSG_STATE_SET
    /\ Deliver(m)
    /\ UNCHANGED scn

TimerDue(n) ==
  \/ UDiff(now, lastHeartbeat[n]) >= HEARTBEAT_INTERVAL
  \/ UDiff(now, lastStateSync[n]) >= STATE_SYNC_INTERVAL

\* The clock runs on and wraps as millis() does; loop() calls update() more
\* often than the clock step taken here, so no due timer is left waiting.
HealStep == ClockWrap \div 2

HealTick ==
  /\ \A n \in Nodes : ~TimerDue(n)
  /\ Tick(HealStep, ClockWrap + HealStep)
  /\ UNCHANGED scn

HealUpdate == \E n \in Nodes : TimerDue(n) /\ Update(n) /\ UNCHANGED scn

NextHeal == HealWrite \/ HealLose \/ HealDeliver \/ HealTick \/ HealUpdate

\* A STATE_SYNC on its way to node n is handed over.
HealDeliverSync(n) ==
  \E m \in net :
    /\ m.t = MSG_STATE_SYNC /\ m.dst = n
    /\ Deliver(m)
    /\ UNCHANGED scn

\* loop() calls update() forever, the clock runs, and the transport
\* eventually hands over or drops what it carries; no STATE_SYNC waits
\* forever behind other traffic.
SpecHeal ==
  /\ InitHeal /\ [][NextHeal]_vars
  /\ WF_vars(HealTick) /\ WF_vars(HealUpdate) /\ WF_vars(HealDeliver) /\ WF_vars(HealLose)
  /\ \A n \in Nodes : WF_vars(HealDeliverSync(n))

\* One node that is handed the same STATE_SET twice in a row: the
\* application registers watchers and writes, the transport hands in a
\* STATE_SET and then the same envelope again.  The history records the
\* envelope, how often it was applied, and the store and the watcher calls
\* seen around the second application.
InitTwice ==
  /\ InitNode
  /\ nodeList = [n \in Nodes |-> {}]
  /\ scn = [count |-> 0, from |-> 0, d |-> EmptyMap, took |-> FALSE,
            same |-> TRUE, calls |-> 0]

TwiceReset == scn' = [count |-> 0, from |-> 0, d |-> EmptyMap, took |-> FALSE,
                      same |-> TRUE, calls |-> 0]

TwiceSetState == \E v \in StoreValues : SetState(Me, "k", v) /\ TwiceReset

TwiceRegister == \E k \in WatchKeys : WatchState(Me, k) /\ TwiceReset

TwiceFirst ==
  \E from \in OriginIds \ {Me}, d \in InboundData :
    /\ OnReceive(Me, from, MSG_STATE_SET, from, d, {})
    /\ scn' = [count |-> 1, from |-> from, d |-> d,
               took |-> sharedState'[Me] # sharedState[Me], same |-> TRUE, calls |-> 0]

TwiceAgain ==
  /\ scn.count = 1
  /\ OnReceive(Me, scn.from, MSG_STATE_SET, scn.from, scn.d, {})
  /\ scn' = [scn EXCEPT !.count = 2,
                        !.same = (sharedState'[Me] = sharedState[Me]),
                        !.calls = Len(last'.fired)]

NextTwice == TwiceSetState \/ TwiceRegister \/ TwiceFirst \/ TwiceAgain

SpecTwice == InitTwice /\ [][NextTwice]_vars

\* Membership of a mesh whose transport connects and separates the nodes
\* at will: a node's list changes, the transport then runs the callbacks it
\* owes (new connection, dropped connection, changed connections), and the
\* heartbeats sent on a new connection travel.  The history keeps the
\* callbacks owed to each node (cb), the node list each node saw at its last
\* election (at, own id when none ran), and whether two nodes were ever
\* COORD together (split).
ElectNone == [n \in Nodes |-> {n}]

InitElect ==
  /\ InitNode
  /\ nodeList = [n \in Nodes |-> {}]
  /\ scn = [cb |-> [n \in Nodes |-> {}], at |-> ElectNone, split |-> FALSE]

TwoCoords == \E a \in Nodes, b \in Nodes : a # b /\ myRole'[a] = "COORD" /\ myRole'[b] = "COORD"

ElectTopology ==
  \E n \in Nodes : \E S \in SUBSET (Nodes \ {n}) :
    /\ NodeListChange(n, S)
    /\ scn' = [scn EXCEPT !.cb[n] = @ \cup {<<"changed", 0>>}
                                      \cup {<<"new", id>> : id \in S \ nodeList[n]}
                                      \cup {<<"dropped", id>> : id \in nodeList[n] \ S}]

ElectNew ==
  \E n \in Nodes, id \in Nodes :
    /\ <<"new", id>> \in scn.cb[n]
    /\ OnNewConnection(n, id)
    /\ scn' = [scn EXCEPT !.cb[n] = @ \ {<<"new", id>>}]

ElectDropped ==
  \E n \in Nodes, id \in Nodes :
    /\ <<"dropped", id>> \in scn.cb[n]
    /\ OnDroppedConnection(n, id)
    /\ scn' = [scn EXCEPT !.cb[n] = @ \ {<<"dropped", id>>}, !.at[n] = nodeList[n],
                          !.split = @ \/ TwoCoords]

ElectChanged ==
  \E n \in Nodes :
    /\ <<"changed", 0>> \in scn.cb[n]
    /\ OnChangedConnections(n)
    /\ scn' = [scn EXCEPT !.cb[n] = @ \ {<<"changed", 0>>}, !.at[n] = nodeList[n],
                          !.split = @ \/ TwoCoords]

ElectDeliver ==
  \E m \in net :
    /\ Deliver(m)
    /\ scn' = IF m.t = MSG_HEARTBEAT
              THEN [scn EXCEPT !.at[m.dst] = nodeList[m.dst], !.split = @ \/ TwoCoords]
              ELSE scn

ElectLose == \E m \in net : Lose(m) /\ UNCHANGED scn

NextElect ==
  ElectTopology \/ ElectNew \/ ElectDropped \/ ElectChanged \/ ElectDeliver \/ ElectLose

SpecElect == InitElect /\ [][NextElect]_vars

\* Dead-peer pruning on one node: a single heartbeat of another node
\* arrives at t = 0, the transport may change the node list, the clock
\* advances in steps of HEARTBEAT_INTERVAL and of 1 ms, and loop() calls
\* update() at any time.
Other == IF Me = 1 THEN 2 ELSE 1

PruneEnd == PEER_DEAD_MS + HEARTBEAT_INTERVAL + 2

InitPrune ==
  /\ InitNode
  /\ nodeList = [n \in Nodes |-> IF n = Me THEN {Other} ELSE {}]
  /\ scn = [heard |-> FALSE]

PruneHeartbeat ==
  /\ now = 0 /\ ~scn.heard
  /\ \E role \in {"PEER", "COORD"} :
       OnReceive(Me, Other, MSG_HEARTBEAT, Other, [role |-> role, up |-> 0, states |-> 0], {})
  /\ scn' = [heard |-> TRUE]

PruneNodeList ==
  /\ \E S \in SUBSET (Nodes \ {Me}) : NodeListChange(Me, S)
  /\ UNCHANGED scn

PruneTick ==
  /\ \/ Tick(HEARTBEAT_INTERVAL, PruneEnd)
     \/ now % HEARTBEAT_INTERVAL < 2 /\ Tick(1, PruneEnd)
  /\ UNCHANGED scn

PruneUpdate == Update(Me) /\ UNCHANGED scn

NextPrune == PruneHeartbeat \/ PruneNodeList \/ PruneTick \/ PruneUpdate

SpecPrune == InitPrune /\ [][NextPrune]_vars

\* Telemetry timing on one node: the application switches telemetry on and
\* off, sets the interval, and writes keys "a" and "b"; the clock advances
\* in steps of 500 ms and loop() calls update() at any time.  The history
\* keeps the time of the last push of either kind (anyT) and of the last
\* state-triggered push (stateT), -1 when none happened.
TelemKeys == {"a", "b"}
TelemValues == {"1", "2"}
TelemIntervals == {STATE_TELEMETRY_MIN_INTERVAL - 500, TELEMETRY_INTERVAL}
TelemEnd == 2 * STATE_TELEMETRY_MIN_INTERVAL

InitTelem ==
  /\ InitNode
  /\ nodeList = [n \in Nodes |-> {}]
  /\ scn = [anyT |-> -1, stateT |-> -1]

TelemEnable == \E b \in BOOLEAN : EnableTelemetry(Me, b) /\ UNCHANGED scn

TelemInterval == \E ms \in TelemIntervals : SetTelemetryInterval(Me, ms) /\ UNCHANGED scn

TelemSetState ==
  \E k \in TelemKeys, v \in TelemValues :
    /\ SetState(Me, k, v)
    /\ scn' = IF last'.pushes > 0 THEN [anyT |-> now, stateT |-> now] ELSE scn

TelemTick == Tick(STATE_TELEMETRY_MIN_INTERVAL \div 4, TelemEnd) /\ UNCHANGED scn

TelemUpdate ==
  /\ Update(Me)
  /\ scn' = IF last'.pushes > 0 THEN [scn EXCEPT !.anyT = now] ELSE scn

NextTelem == TelemEnable \/ TelemInterval \/ TelemSetState \/ TelemTick \/ TelemUpdate

SpecTelem == InitTelem /\ [][NextTelem]_vars

\* Batch writes on one node: the application registers watchers, switches
\* telemetry on and off and writes batches of up to two pairs over the keys
\* "a" and "b"; the clock advances by the debounce window.
TelemBatches ==
  LET P == {<<k, v>> : k \in TelemKeys, v \in TelemValues}
  IN {<<>>} \cup {<<p>> : p \in P} \cup {<<p, q>> : p \in P, q \in P}

BatchSetStates == \E pairs \in TelemBatches : SetStates(Me, pairs) /\ UNCHANGED scn

BatchRegister == \E k \in {"a", "*"} : WatchState(Me, k) /\ UNCHANGED scn

BatchEnable == \E b \in BOOLEAN : EnableTelemetry(Me, b) /\ UNCHANGED scn

BatchTick == Tick(STATE_TELEMETRY_MIN_INTERVAL, STATE_TELEMETRY_MIN_INTERVAL) /\ UNCHANGED scn

NextBatch == BatchSetStates \/ BatchRegister \/ BatchEnable \/ BatchTick

SpecBatch == InitOne /\ [][NextBatch]_vars

\* OTA distribution on one gateway node: the application configures the
\* node and calls checkForOTAUpdates from its loop, the server answers the
\* poll, the transport accepts or refuses the offer and asks for parts, the
\* downloads succeed or fail, WiFi comes and goes, and the clock advances by
\* half the poll interval.
OtaPending ==
  {[update_id |-> 1, firmware_id |-> 7, node_type |-> "sensor", version |-> "1.0",
    num_parts |-> 2, size_bytes |-> OTA_PART_SIZE + OTA_PART_SIZE \div 2],
   [update_id |-> 2, firmware_id |-> 8, node_type |-> "sensor", version |-> "1.1",
    num_parts |-> 1, size_bytes |-> OTA_PART_SIZE],
   [update_id |-> 3, firmware_id |-> 9]}

OtaResponses ==
  {[code |-> 500, json |-> TRUE, updates |-> <<>>],
   [code |-> 200, json |-> FALSE, updates |-> <<>>],
   [code |-> 200, json |-> TRUE, updates |-> <<>>]}
  \cup {[code |-> 200, json |-> TRUE, updates |-> <<u>>] : u \in OtaPending}

OtaParts == 0..2
OtaFetches == {"ok", "http_error", "short"}
OtaUrls == {"", "http://server"}
OtaEnd == 2 * OTA_POLL_INTERVAL

InitOta ==
  /\ InitNode
  /\ nodeList = [n \in Nodes |-> {}]
  /\ scn = [none |-> TRUE]

OtaEnable == \E b \in BOOLEAN : EnableOTADistribution(Me, b) /\ UNCHANGED scn

OtaGateway == \E b \in BOOLEAN : SetGatewayMode(Me, b) /\ UNCHANGED scn

OtaServer == \E url \in OtaUrls : SetTelemetryServer(Me, url) /\ UNCHANGED scn

OtaWifi == \E b \in BOOLEAN : WifiStatus(Me, b) /\ UNCHANGED scn

OtaTick == Tick(OTA_POLL_INTERVAL \div 2, OtaEnd) /\ UNCHANGED scn

OtaCheck ==
  \E resp \in OtaResponses, offerOk \in BOOLEAN :
    CheckForOTAUpdates(Me, resp, offerOk) /\ UNCHANGED scn

OtaRequest ==
  \E partNo \in OtaParts, fetch \in OtaFetches :
    OtaDataRequest(Me, partNo, fetch) /\ UNCHANGED scn

NextOta == OtaEnable \/ OtaGateway \/ OtaServer \/ OtaWifi \/ OtaTick \/ OtaCheck \/ OtaRequest

SpecOta == InitOta /\ [][NextOta]_vars

\* Inbound dispatch on one node: the application writes two keys,
\* registers watchers and switches gateway mode; the transport hands in
\* heartbeats, STATE_SET and STATE_REQ envelopes, envelopes of unknown,
\* COMMAND and TELEMETRY type, STATE_SET envelopes without a key, and text
\* that is not JSON.
InboundKeys == {"a", "b"}
InboundValues == {"1", "2"}
InboundEntry == [k |-> "a", v |-> "1", ver |-> MaxVersion, org |-> 1]

InboundMessages ==
  {[t |-> t, d |-> InboundEntry] : t \in {0, MSG_STATE_SET, MSG_STATE_REQ, MSG_COMMAND,
                                         MSG_TELEMETRY, MSG_TELEMETRY + 1}}
    \cup {[t |-> MSG_HEARTBEAT, d |-> [role |-> r]] : r \in {"PEER", "COORD"}}
    \cup {[t |-> MSG_STATE_SET, d |-> [k |-> "", v |-> "1", ver |-> MaxVersion, org |-> 1]],
          [t |-> MSG_STATE_SET, d |-> [v |-> "1", ver |-> MaxVersion, org |-> 1]]}

InboundSetState ==
  \E k \in InboundKeys, v \in InboundValues : SetState(Me, k, v) /\ UNCHANGED scn

InboundRegister == \E k \in {"", "*"} : WatchState(Me, k) /\ UNCHANGED scn

InboundGateway == \E b \in BOOLEAN : SetGatewayMode(Me, b) /\ UNCHANGED scn

InboundReceive ==
  \E m \in InboundMessages : OnReceive(Me, 1, m.t, 1, m.d, {}) /\ UNCHANGED scn

InboundUnparsed == OnReceiveUnparsed(Me, 1) /\ UNCHANGED scn

NextInbound ==
  \/ InboundSetState \/ InboundRegister \/ InboundGateway
  \/ InboundReceive \/ InboundUnparsed

SpecInbound == InitOne /\ [][NextInbound]_vars

\* The loop of a gateway application: it configures OTA distribution and
\* the server and calls update() and checkForOTAUpdates() at any time; the
\* server answers the polls, the transport accepts or refuses the offers,
\* and the clock advances by the poll interval.
LoopEnable == \E b \in BOOLEAN : EnableOTADistribution(Me, b) /\ UNCHANGED scn

LoopGateway == \E b \in BOOLEAN : SetGatewayMode(Me, b) /\ UNCHANGED scn

LoopServer == \E url \in OtaUrls : SetTelemetryServer(Me, url) /\ UNCHANGED scn

LoopTelemetry == \E b \in BOOLEAN : EnableTelemetry(Me, b) /\ UNCHANGED scn

LoopTick == Tick(OTA_POLL_INTERVAL, OtaEnd) /\ UNCHANGED scn

LoopUpdate == Update(Me) /\ UNCHANGED scn

LoopCheck ==
  \E resp \in OtaResponses, offerOk \in BOOLEAN :
    CheckForOTAUpdates(Me, resp, offerOk) /\ UNCHANGED scn

NextLoop ==
  LoopEnable \/ LoopGateway \/ LoopServer \/ LoopTelemetry \/ LoopTick \/ LoopUpdate \/ LoopCheck

SpecLoop == InitOta /\ [][NextLoop]_vars

\* The iterations of loop() on one node that sends its telemetry over the
\* mesh.  An iteration is one call of update(): mesh.update() hands the
\* inbound messages to onReceive (phase "inbound"), then the body of
\* update() runs.  Between iterations the application writes, registers
\* loop callbacks and switches telemetry, and the clock advances.  The
\* history counts the messages received in the current iteration (seen).
OrderMessages ==
  {[t |-> MSG_HEARTBEAT, d |-> [role |-> "PEER"]]}
    \cup {[t |-> MSG_STATE_SET, d |-> [k |-> k, v |-> "1", ver |-> MaxVersion, org |-> 1]] :
            k \in InboundKeys}

InitOrder ==
  /\ InitNode
  /\ nodeList = [n \in Nodes |-> {}]
  /\ scn = [phase |-> "idle", seen |-> 0]

OrderSetState ==
  /\ scn.phase = "idle"
  /\ SetState(Me, "a", "2")
  /\ UNCHANGED scn

OrderOnLoop == scn.phase = "idle" /\ OnLoop(Me) /\ UNCHANGED scn

OrderTelemetry ==
  /\ scn.phase = "idle"
  /\ \E b \in BOOLEAN : EnableTelemetry(Me, b)
  /\ UNCHANGED scn

OrderTick ==
  /\ scn.phase = "idle"
  /\ Tick(STATE_SYNC_INTERVAL, TELEMETRY_INTERVAL)
  /\ UNCHANGED scn

\* update() is entered: mesh.update() starts.
OrderBegin ==
  /\ scn.phase = "idle"
  /\ scn' = [phase |-> "inbound", seen |-> 0]
  /\ last' = Idle("mesh.update")
  /\ UNCHANGED <<storeVars, memberVars, timerVars, telemVars, configVars, otaVars, displayPower, now, net,
                 wrote>>

OrderReceive ==
  /\ scn.phase = "inbound" /\ scn.seen < 2
  /\ \E m \in OrderMessages : OnReceive(Me, 1, m.t, 1, m.d, {})
  /\ scn' = [scn EXCEPT !.seen = @ + 1]

\* mesh.update() has returned: the body of update() runs.
OrderEnd ==
  /\ scn.phase = "inbound"
  /\ Update(Me)
  /\ scn' = [scn EXCEPT !.phase = "idle"]

NextOrder ==
  \/ OrderSetState \/ OrderOnLoop \/ OrderTelemetry \/ OrderTick
  \/ OrderBegin \/ OrderReceive \/ OrderEnd

SpecOrder == InitOrder /\ [][NextOrder]_vars

\* A closed mesh late in its life: node 1 has written "x" once or
\* VersionWrap - 1 times, the first and the last time with the value "c";
\* every other node holds the last write, or still the first one (it was
\* cut off since).  The nodes then write "x", broadcast their full state,
\* and the transport delivers or loses the messages.
WrapValues == {"a", "b"}

InitWrap ==
  /\ InitFields
  /\ nodeList = FullMesh
  /\ \E ver \in [Nodes -> {1, VersionWrap - 1}] :
       /\ \A n \in Nodes : ver[n] <= ver[1]
       /\ sharedState = [n \in Nodes |->
            Put(EmptyMap, "x", [value |-> "c", version |-> ver[n], origin |-> 1,
                                timestamp |-> 0])]
  /\ scn = [none |-> TRUE]

WrapWrite == \E n \in Nodes, v \in WrapValues : SetState(n, "x", v) /\ UNCHANGED scn

WrapSync == \E n \in Nodes : BroadcastFullState(n) /\ UNCHANGED scn

WrapDeliver == \E m \in net : Deliver(m) /\ UNCHANGED scn

WrapLose == \E m \in net : Lose(m) /\ UNCHANGED scn

NextWrap == WrapWrite \/ WrapSync \/ WrapDeliver \/ WrapLose

SpecWrap == InitWrap /\ [][NextWrap]_vars

\* A display power manager driven by an application: configuration calls,
\* update() from loop() with any readings of one wake button, forced sleep
\* and wake, user activity, and time passing in steps of 60 ms around the
\* multiples of the default timeout; the application wires the display that
\* matches the type it began with.  The history keeps the callback
\* invoked last.
DisplayTypes == {"NONE", "SSD1306_OLED", "GC9A01_TFT"}
DisplayTimeouts == {0, 100}
DisplayStep == DPM_DEBOUNCE_MS + 10
DisplayEnd == DISPLAY_SLEEP_TIMEOUT_MS + 3 * DisplayStep

InitDisplay ==
  /\ InitNode
  /\ nodeList = [n \in Nodes |-> {}]
  /\ scn = [cb |-> "none"]

\* The history of a display step: the last callback invoked, and the clock
\* kept within the window of the scenario.
DisplayNote ==
  /\ now' % DISPLAY_SLEEP_TIMEOUT_MS <= 3 * DisplayStep
  /\ now' <= DisplayEnd
  /\ scn' = [cb |-> IF last'.fired = <<>> THEN scn.cb ELSE last'.fired[Len(last'.fired)]]

DispBegin == \E type \in DisplayTypes : DisplayBegin(type) /\ DisplayNote
DispOled ==
  displayPower.type = "SSD1306_OLED" /\ ~displayPower.oled /\ SetOledDisplay /\ DisplayNote
DispTft ==
  /\ IsTft(displayPower.type) /\ ~displayPower.sendTftCommand
  /\ SetTftCommandCallback /\ DisplayNote
DispTimeout == \E t \in DisplayTimeouts : SetSleepTimeout(t) /\ DisplayNote
DispButton == displayPower.wakeButtons = <<>> /\ AddWakeButton(TRUE, TRUE) /\ DisplayNote
DispOnSleep == ~displayPower.onSleep /\ OnSleep /\ DisplayNote
DispOnWake == displayPower.onSleep /\ ~displayPower.onWake /\ OnWake /\ DisplayNote
DispUpdate ==
  \E pins \in [1..Len(displayPower.wakeButtons) -> BOOLEAN] : DisplayUpdate(pins) /\ DisplayNote
DispReset == ResetActivity /\ DisplayNote
DispWake == DisplayWake /\ DisplayNote
DispSleep == DisplaySleep /\ DisplayNote
DispTick ==
  /\ \E d \in {DisplayStep, DISPLAY_SLEEP_TIMEOUT_MS} : Tick(d, DisplayEnd)
  /\ UNCHANGED displayPower
  /\ DisplayNote

NextDisplay ==
  \/ DispBegin
  \/ DispOled
  \/ DispTft
  \/ DispTimeout
  \/ DispButton
  \/ DispOnSleep
  \/ DispOnWake
  \/ DispUpdate
  \/ DispReset
  \/ DispWake
  \/ DispSleep
  \/ DispTick

SpecDisplay == InitDisplay /\ [][NextDisplay]_vars

\* OTA distribution on a gateway whose loop never stops: the application
\* enables distribution, gateway mode and the server once, then calls
\* checkForOTAUpdates again and again while the clock runs on (and wraps);
\* WiFi stays up.  Nodes may request parts, but nothing obliges them to.
LiveEnable == ~otaDistributionEnabled[Me] /\ EnableOTADistribution(Me, TRUE) /\ UNCHANGED scn
LiveGateway == ~gatewayMode[Me] /\ SetGatewayMode(Me, TRUE) /\ UNCHANGED scn
LiveServer == telemetryUrl[Me] = "" /\ SetTelemetryServer(Me, "http://server") /\ UNCHANGED scn
LiveTick == Tick(HealStep, 2 * ClockWrap) /\ UNCHANGED scn
LiveCheck ==
  \E resp \in OtaResponses, offerOk \in BOOLEAN :
    CheckForOTAUpdates(Me, resp, offerOk) /\ UNCHANGED scn
LiveRequest ==
  \E partNo \in OtaParts, fetch \in OtaFetches :
    OtaDataRequest(Me, partNo, fetch) /\ UNCHANGED scn

NextOtaLive ==
  \/ LiveEnable
  \/ LiveGateway
  \/ LiveServer
  \/ LiveTick
  \/ LiveCheck
  \/ LiveRequest

\* The clock moves on by one step.
LiveClock == now' = (now + HealStep) % ClockWrap

\* A call of checkForOTAUpdates finds the poll interval elapsed and stamps
\* lastOTACheck (cpp:983-987).
LiveDueCheck ==
  /\ otaDistributionEnabled[Me] /\ gatewayMode[Me]
  /\ UDiff(now, lastOTACheck[Me]) >= OTA_POLL_INTERVAL
  /\ lastOTACheck' = [lastOTACheck EXCEPT ![Me] = now]

\* Fairness: time passes, and loop() calls checkForOTAUpdates far more often
\* than the poll interval, so whenever the interval has elapsed again and
\* again, calls that find it elapsed happen again and again.
SpecOtaLive ==
  /\ InitOta /\ [][NextOtaLive]_vars
  /\ WF_now(LiveClock) /\ SF_lastOTACheck(LiveDueCheck)

\* Heartbeat timing on one node over more than a full turn of the
\* millisecond counter: the clock advances in steps of ClockWrap / 128 and
\* wraps, and loop() calls update() at any time but at least every two
\* heartbeat intervals.  The history keeps the time really elapsed since the
\* last scheduled heartbeat (since boot before the first) and whether the
\* counter has wrapped.
BeatStep == ClockWrap \div 128
BeatIdleMax == 2 * HEARTBEAT_INTERVAL

InitBeat ==
  /\ InitNode
  /\ nodeList = [n \in Nodes |-> {}]
  /\ scn = [since |-> 0, wrapped |-> FALSE]

BeatTick ==
  /\ scn.since + BeatStep <= BeatIdleMax
  /\ Tick(BeatStep, 2 * ClockWrap)
  /\ scn' = [since |-> scn.since + BeatStep, wrapped |-> scn.wrapped \/ now' < now]

BeatUpdate ==
  /\ Update(Me)
  /\ scn' = [scn EXCEPT !.since = IF lastHeartbeat'[Me] # lastHeartbeat[Me] THEN 0 ELSE @]

NextBeat == BeatTick \/ BeatUpdate

SpecBeat == InitBeat /\ [][NextBeat]_vars

\* The peer table of one node: heartbeats of two other nodes arrive, the
\* transport reports their connections dropped, the application writes a
\* key, the clock advances in steps of HEARTBEAT_INTERVAL and loop() calls
\* update(), which prunes.  The history keeps, per peer, the latest event.
PeerIds == OriginIds \ {Me}
PeersEnd == PEER_DEAD_MS + 2 * HEARTBEAT_INTERVAL

InitPeers ==
  /\ InitNode
  /\ nodeList = [n \in Nodes |-> {}]
  /\ scn = [latest |-> [f \in PeerIds |-> "none"]]

PeersHeartbeat ==
  \E f \in PeerIds, role \in {"PEER", "COORD"} :
    /\ OnReceive(Me, f, MSG_HEARTBEAT, f, [role |-> role, up |-> 0, states |-> 0], {})
    /\ scn' = [scn EXCEPT !.latest[f] = "hb"]

PeersDropped ==
  \E f \in PeerIds :
    /\ OnDroppedConnection(Me, f)
    /\ scn' = [scn EXCEPT !.latest[f] = "drop"]

PeersSetState == SetState(Me, "a", "1") /\ UNCHANGED scn

PeersTick == Tick(HEARTBEAT_INTERVAL, PeersEnd) /\ UNCHANGED scn

PeersUpdate == Update(Me) /\ UNCHANGED scn

NextPeers == PeersHeartbeat \/ PeersDropped \/ PeersSetState \/ PeersTick \/ PeersUpdate

SpecPeers == InitPeers /\ [][NextPeers]_vars

\* A late write on a converged mesh: the closed mesh of Spec runs until the
\* application has stopped writing, fresh full-state syncs have been exchanged,
\* nothing is in flight and all nodes hold the same value of the key; one node
\* then writes a different value (LateWrite).  From then on no message is
\* lost, and the history records the syncs sent and processed after the write.
InitLate ==
  /\ InitNode
  /\ nodeList = FullMesh
  /\ scn = [quiet |-> FALSE, fresh |-> {}, got |-> [n \in Nodes |-> {}],
            late |-> FALSE, writer |-> 0, value |-> ""]

\* Every node holds key k, all with the same value.
ConvergedOn(k) ==
  /\ \A n \in Nodes : k \in DOMAIN sharedState[n]
  /\ \A a \in Nodes, b \in Nodes : sharedState[a][k].value = sharedState[b][k].value

LateWrite ==
  /\ scn.quiet /\ ~scn.late
  /\ \A a \in Nodes : scn.got[a] = Nodes \ {a}
  /\ net = {}
  /\ \E n \in Nodes, k \in MeshKeys, v \in MeshValues :
       /\ ConvergedOn(k)
       /\ v # sharedState[n][k].value
       /\ SetState(n, k, v)
       /\ scn' = [scn EXCEPT !.late = TRUE, !.writer = n, !.value = v,
                             !.fresh = {}, !.got = [a \in Nodes |-> {}]]

LateLose == ~scn.late /\ MeshLose

NextLate == MeshWrite \/ GoQuiet \/ MeshSync \/ MeshDeliver \/ LateLose \/ LateWrite

SpecLate == InitLate /\ [][NextLate]_vars

(* ------------------------------ claims -------------------------------- *)

\* (version, origin) of new wins over that of old: a higher version, or
\* the same version from a numerically lower origin.
Wins(new, old) ==
  \/ new.version > old.version
  \/ new.version = old.version /\ new.origin < old.origin

\* value, version and origin of a stored entry
Core(e) == [value |-> e.value, version |-> e.version, origin |-> e.origin]

\* C1: on every node and key, whenever a stored entry is replaced (by
\* setState, setStates, STATE_SET or STATE_SYNC), the new (version, origin)
\* wins over the replaced one; a stored key is never removed.
C1_VersionOriginNeverRegresses ==
  [][\A n \in Nodes : \A k \in DOMAIN sharedState[n] :
        /\ k \in DOMAIN sharedState'[n]
        /\ sharedState'[n][k] # sharedState[n][k]
             => Wins(sharedState'[n][k], sharedState[n][k])]_vars

\* C1 witness: an inbound STATE_SET from a lower origin has replaced an
\* entry this node wrote itself.
C1_Witness ==
  /\ last.op = "onReceive" /\ last.arg.t = MSG_STATE_SET
  /\ wrote[Me] >= 1
  /\ "k" \in DOMAIN sharedState[Me]
  /\ sharedState[Me]["k"].origin < Me
  /\ DOMAIN last.arg.d = {"k", "v", "ver", "org"}
  /\ Core(sharedState[Me]["k"]) =
       [value |-> last.arg.d.v, version |-> last.arg.d.ver, origin |-> last.arg.d.org]

\* A STATE_SET with all four fields and a non-empty key was handled in this step.
FullStateSetStep ==
  /\ last'.op = "onReceive" /\ last'.arg.t = MSG_STATE_SET
  /\ DOMAIN last'.arg.d = {"k", "v", "ver", "org"}
  /\ last'.arg.d.k # ""

\* C2: an inbound STATE_SET (k, v, ver, org) with non-empty k is stored as
\* exactly (v, ver, org) iff k is absent, or ver is higher, or ver is equal
\* and org is lower, whatever v is; otherwise the store is unchanged.
C2_AcceptIffRule ==
  [][FullStateSetStep =>
       LET n == last'.node
           d == last'.arg.d
           pre == sharedState[n]
           post == sharedState'[n]
           rule == \/ d.k \notin DOMAIN pre
                   \/ d.ver > pre[d.k].version
                   \/ d.ver = pre[d.k].version /\ d.org < pre[d.k].origin
       IN IF rule
          THEN /\ d.k \in DOMAIN post
               /\ Core(post[d.k]) = [value |-> d.v, version |-> d.ver, origin |-> d.org]
          ELSE post = pre]_vars


\* getState(key, "") on a store
ValueIn(st, key) == IF key \in DOMAIN st THEN st[key].value ELSE ""

\* setState(key, value) ran in this step on a key that is present with
\* that very value.
SameValueSetStep ==
  /\ last'.op = "setState"
  /\ last'.arg.key \in DOMAIN sharedState[last'.node]
  /\ sharedState[last'.node][last'.arg.key].value = last'.arg.value

\* C6: setState(k, v) on a key whose current value is v returns false and
\* changes nothing: entry (version, origin, timestamp) kept, no broadcast,
\* no watcher call, no telemetry push, telemetry timers kept.
C6_UnchangedValueIsNoOp ==
  [][SameValueSetStep =>
       /\ last'.ret = FALSE
       /\ sharedState' = sharedState
       /\ last'.sent = <<>> /\ net' = net
       /\ last'.fired = <<>>
       /\ last'.pushes = 0 /\ last'.http = <<>>
       /\ lastTelemetryPush' = lastTelemetryPush
       /\ lastStateTelemetryPush' = lastStateTelemetryPush]_vars

\* C6 witness: such a call returned false although a watcher of the key is
\* registered, telemetry is on with the debounce window elapsed, and the
\* clock has moved since the entry was written.
C6_Witness ==
  /\ last.op = "setState" /\ last.ret = FALSE
  /\ last.arg.key \in DOMAIN stateWatchers[Me]
  /\ telemetryEnabled[Me]
  /\ UDiff(now, lastStateTelemetryPush[Me]) >= STATE_TELEMETRY_MIN_INTERVAL
  /\ sharedState[Me][last.arg.key].timestamp < now

\* setState(key, value) ran in this step and the value differs from the
\* stored one, or the key is absent.
ChangingSetStep ==
  /\ last'.op = "setState"
  /\ \/ last'.arg.key \notin DOMAIN sharedState[last'.node]
     \/ sharedState[last'.node][last'.arg.key].value # last'.arg.value

\* C7: a value-changing setState(k, v) stores (v, prior version + 1 or 1
\* if k was absent, local id) and broadcasts exactly one STATE_SET, which
\* carries that same (k, v, version, origin).
C7_LocalWriteBumpsAndBroadcasts ==
  [][ChangingSetStep =>
       LET n == last'.node
           k == last'.arg.key
           pre == sharedState[n]
           ver == IF k \in DOMAIN pre THEN pre[k].version + 1 ELSE 1
           sets == SelectSeq(last'.sent, LAMBDA m : m.t = MSG_STATE_SET)
       IN /\ last'.ret = TRUE
          /\ k \in DOMAIN sharedState'[n]
          /\ Core(sharedState'[n][k]) = [value |-> last'.arg.value, version |-> ver, origin |-> n]
          /\ Len(sets) = 1
          /\ sets[1].d = [k |-> k, v |-> last'.arg.value, ver |-> ver, org |-> n]]_vars

\* C7 witness: the local write followed an entry of remote origin (the
\* node's only write, on top of the highest injected version).
C7_Witness ==
  /\ last.op = "setState" /\ last.ret = TRUE
  /\ wrote[Me] = 1
  /\ sharedState[Me][last.arg.key].version = MaxVersion + 1
  /\ sharedState[Me][last.arg.key].origin = Me

\* C10: handling an inbound STATE_SET or STATE_SYNC sends no mesh message,
\* whether entries were accepted or rejected.
C10_InboundStateSendsNothing ==
  (last.op = "onReceive" /\ last.arg.t \in {MSG_STATE_SET, MSG_STATE_SYNC}) => last.sent = <<>>

\* C10 witness: a STATE_SYNC was handled and its last entry was accepted.
C10_Witness ==
  /\ last.op = "onReceive" /\ last.arg.t = MSG_STATE_SYNC
  /\ Len(last.arg.d.s) = 2
  /\ "k" \in DOMAIN sharedState[Me]
  /\ Core(sharedState[Me]["k"]) =
       [value |-> last.arg.d.s[2].v, version |-> last.arg.d.s[2].ver, origin |-> last.arg.d.s[2].org]
  /\ last.arg.d.s[1].v # last.arg.d.s[2].v


\* A single-entry operation ran in this step: setState, or an inbound
\* STATE_SET with all four fields.
SingleEntryStep ==
  \/ last'.op = "setState"
  \/ last'.op = "onReceive" /\ last'.arg.t = MSG_STATE_SET
       /\ DOMAIN last'.arg.d = {"k", "v", "ver", "org"}

StepKey == IF last'.op = "setState" THEN last'.arg.key ELSE last'.arg.d.k

WatchersOf(n, wk) == IF wk \in DOMAIN stateWatchers[n] THEN stateWatchers[n][wk] ELSE <<>>

Occurrences(seq, cb) == Cardinality({i \in 1..Len(seq) : seq[i].cb = cb})

\* C8: for every key k, the key "*" included, a local write or accepted
\* STATE_SET that changes the stored value of k calls each watcher of k
\* once and each watcher of "*" once, with (k, new, old), the key's
\* watchers first, each group in registration order.
C8_WatchersFireOncePerChange ==
  [][SingleEntryStep =>
       LET n == last'.node
           k == StepKey
           pre == sharedState[n]
           post == sharedState'[n]
           changed == k \in DOMAIN post /\ (k \notin DOMAIN pre \/ pre[k].value # post[k].value)
           own == WatchersOf(n, k)
           wild == WatchersOf(n, "*")
           all == {own[i] : i \in 1..Len(own)} \cup {wild[i] : i \in 1..Len(wild)}
           order == IF k = "*" THEN wild ELSE own \o wild
       IN changed =>
            /\ \A cb \in 1..MaxWatchers :
                 Occurrences(last'.fired, cb) = IF cb \in all THEN 1 ELSE 0
            /\ \A i \in 1..Len(last'.fired) :
                 /\ last'.fired[i].key = k
                 /\ last'.fired[i].value = post[k].value
                 /\ last'.fired[i].oldValue = ValueIn(pre, k)
            /\ [i \in 1..Len(last'.fired) |-> last'.fired[i].cb] = order]_vars

\* C9: in every watcher call, whichever of setState, setStates, STATE_SET
\* or STATE_SYNC caused it, the new value differs from the old value; and
\* after a single-entry operation that called a watcher the value the store
\* returns for the key differs from the one before.
C9_WatchersOnlyOnChange ==
  [][/\ \A i \in 1..Len(last'.fired) : last'.fired[i].value # last'.fired[i].oldValue
     /\ (SingleEntryStep /\ last'.fired # <<>>) =>
          ValueIn(sharedState'[last'.node], StepKey) # ValueIn(sharedState[last'.node], StepKey)]_vars


\* What a node's store replicates: value, version and origin of each key
\* (the timestamp is node-local).
Replica(n) ==
  [k \in DOMAIN sharedState[n] |->
     [value |-> sharedState[n][k].value, version |-> sharedState[n][k].version,
      origin |-> sharedState[n][k].origin]]

\* C3: once writes have stopped and two nodes have each processed a
\* full-state STATE_SYNC the other sent after the last write, their stores
\* hold the same keys with the same value, version and origin.
C3_StoresEqualAfterSyncExchange ==
  \A a \in Nodes, b \in Nodes :
    (a # b /\ scn.quiet /\ b \in scn.got[a] /\ a \in scn.got[b]) => Replica(a) = Replica(b)

\* C4: two nodes A < B held the same entry for x and each set x to a
\* different value before receiving the other's STATE_SET; the two writes
\* got the same version, and once both STATE_SET messages have been
\* processed, in whichever order, both nodes hold the value A wrote.
C4_LowerOriginWinsRace ==
  \A a \in Nodes, b \in Nodes :
    (/\ a < b
     /\ DOMAIN scn.val = {a, b}
     /\ {<<a, b>>, <<b, a>>} \subseteq scn.seen)
    => /\ sharedState[a]["x"].value = scn.val[a]
       /\ sharedState[b]["x"].value = scn.val[a]
       /\ sharedState[a]["x"].version = sharedState[b]["x"].version
       /\ sharedState[a]["x"].origin = a
       /\ sharedState[b]["x"].origin = a

\* The race has been run to its end and B gave up the value it wrote.
C4_Witness ==
  \E a \in Nodes, b \in Nodes :
    /\ a < b
    /\ DOMAIN scn.val = {a, b}
    /\ {<<a, b>>, <<b, a>>} \subseteq scn.seen
    /\ last.op = "onReceive" /\ last.node = a
    /\ scn.val[b] # scn.val[a]
    /\ sharedState[b]["x"].value = scn.val[a]

\* C5: when the STATE_SET of a local write on A was lost, every other
\* node B eventually holds that key with A's value, version and origin,
\* brought by A's periodic full-state STATE_SYNC, no further write made.
C5_SyncHealsLostBroadcast ==
  scn.lost ~>
    (\A b \in Nodes :
       /\ "k" \in DOMAIN sharedState[b]
       /\ Core(sharedState[b]["k"]) = Core(sharedState[scn.writer]["k"]))

\* C11: a STATE_SET applied a second time, right after its first
\* application, leaves the store as it is and calls no watcher, whether the
\* first application was accepted or not.
C11_SecondApplicationIsNoOp ==
  scn.count = 2 => (scn.same /\ scn.calls = 0)

\* C11 witness: the envelope was accepted the first time, with a watcher
\* of its key registered, and has been applied again.
C11_Witness ==
  /\ scn.count = 2 /\ scn.took
  /\ "k" \in DOMAIN stateWatchers[Me]
  /\ last.op = "onReceive" /\ last.arg.d = scn.d

\* The smallest id of node n's known membership: its own id and the
\* transport's node list.
MinKnown(n) == CHOOSE a \in nodeList[n] \cup {n} : \A b \in nodeList[n] \cup {n} : a <= b

\* The election ran in the step that led here.
ElectionRan ==
  \/ last.op \in {"onDroppedConnection", "onChangedConnections"}
  \/ last.op = "onReceive" /\ last.arg.t = MSG_HEARTBEAT

\* C12: right after every run of the election (heartbeat ingest, dropped
\* connection, topology change) coordinatorId is the minimum of the own id
\* and the transport's node list, the role is COORD iff that minimum is the
\* own id and PEER otherwise, and nothing was sent.
C12_ElectionPicksLowest ==
  ElectionRan =>
    /\ coordinatorId[last.node] = MinKnown(last.node)
    /\ myRole[last.node] = (IF MinKnown(last.node) = last.node THEN "COORD" ELSE "PEER")
    /\ last.sent = <<>>

\* C12 witness: a heartbeat from a higher id was ingested by a node that
\* thereby turned COORD, its node list not empty.
C12_Witness ==
  /\ last.op = "onReceive" /\ last.arg.t = MSG_HEARTBEAT
  /\ last.arg.from > last.node
  /\ nodeList[last.node] # {}
  /\ myRole[last.node] = "COORD"
  /\ coordinatorId[last.node] = last.node

\* C13: in every reachable state, from boot onwards, a node's role is
\* COORD iff its own id is the smallest of its known membership (own id and
\* the transport's node list), and PEER otherwise.
C13_RoleAlwaysMatchesMembership ==
  \A n \in Nodes : myRole[n] = (IF MinKnown(n) = n THEN "COORD" ELSE "PEER")

\* Every node's list holds all the others and its last election saw that list.
Reunited ==
  \A n \in Nodes : nodeList[n] = Nodes \ {n} /\ scn.at[n] = nodeList[n]

\* C14: after a split in which two nodes were COORD, once the partitions
\* have reunited and every node has processed a topology-change or
\* heartbeat event with the merged node list, the lowest id alone is COORD
\* and every other node is PEER.
C14_SplitBrainHeals ==
  Reunited =>
    \A n \in Nodes : myRole[n] = (IF \A m \in Nodes : n <= m THEN "COORD" ELSE "PEER")

\* C14 witness: two nodes were COORD at once, and the mesh has reunited
\* with a single coordinator.
C14_Witness ==
  /\ scn.split /\ Reunited
  /\ myRole[1] = "COORD" /\ coordinatorId[NumNodes] = 1 /\ myRole[NumNodes] = "PEER"

\* update() ran in this step on the node that heard the other node's only
\* heartbeat at t = 0, at a time t >= PEER_DEAD_MS + 1.
LateUpdateStep ==
  /\ last'.op = "update" /\ last'.node = Me
  /\ scn.heard
  /\ now >= PEER_DEAD_MS + 1

C16_StatePushUnlessRecentPush ==
  [][(ChangingSetStep /\ telemetryEnabled[last'.node]) =>
       last'.pushes =
         (IF scn.stateT = -1 \/ now - scn.stateT >= STATE_TELEMETRY_MIN_INTERVAL
          THEN 1 ELSE 0)]_vars

\* C17: a state-change push sets lastTelemetryPush and
\* lastStateTelemetryPush to now; a value-changing write without a push
\* changes neither; a periodic push from update() sets lastTelemetryPush
\* only; the periodic push comes no earlier than telemetryInterval after the
\* last push of either kind, and two state-triggered pushes are at least
\* 2000 ms apart.
C17_TelemetryTimers ==
  [][LET n == last'.node
     IN /\ (last'.op = "setState" /\ last'.pushes > 0) =>
             /\ lastTelemetryPush'[n] = now /\ lastStateTelemetryPush'[n] = now
             /\ scn.stateT = -1 \/ now - scn.stateT >= STATE_TELEMETRY_MIN_INTERVAL
        /\ (last'.op = "setState" /\ last'.pushes = 0) =>
             /\ lastTelemetryPush' = lastTelemetryPush
             /\ lastStateTelemetryPush' = lastStateTelemetryPush
        /\ (last'.op = "update" /\ last'.pushes > 0) =>
             /\ lastTelemetryPush'[n] = now
             /\ lastStateTelemetryPush' = lastStateTelemetryPush
             /\ scn.anyT = -1 \/ now - scn.anyT >= telemetryInterval[n]
        /\ (last'.op = "update" /\ last'.pushes = 0) =>
             /\ lastTelemetryPush' = lastTelemetryPush
             /\ lastStateTelemetryPush' = lastStateTelemetryPush]_vars

\* C17 witness: a periodic push has followed a state-triggered push, one
\* interval later, the state timer still at the time of the state push.
C17_Witness ==
  /\ last.op = "update" /\ last.pushes = 1
  /\ scn.stateT >= 0 /\ scn.anyT > scn.stateT
  /\ lastStateTelemetryPush[Me] = scn.stateT
  /\ lastTelemetryPush[Me] = now

\* The pairs of a batch that change a value, in order, each with the value
\* it replaces; vals maps the keys present to their values.
RECURSIVE BatchChanges(_, _)
BatchChanges(vals, pairs) ==
  IF pairs = <<>> THEN <<>>
  ELSE LET k == pairs[1][1]
           v == pairs[1][2]
       IN IF k \in DOMAIN vals /\ vals[k] = v
          THEN BatchChanges(vals, Tail(pairs))
          ELSE <<[key |-> k, value |-> v,
                  oldValue |-> IF k \in DOMAIN vals THEN vals[k] ELSE ""]>>
               \o BatchChanges([x \in DOMAIN vals \cup {k} |-> IF x = k THEN v ELSE vals[x]],
                               Tail(pairs))

\* C18: a setStates batch triggers at most one telemetry push however many
\* pairs changed a value, and none when no pair changed, telemetry is off or
\* the debounce window has not elapsed; every changed pair has its own
\* STATE_SET and its own calls of the watchers of its key and of "*".
C18_BatchPushesOnce ==
  [][last'.op = "setStates" =>
       LET n == last'.node
           pre == sharedState[n]
           ch == BatchChanges([k \in DOMAIN pre |-> pre[k].value], last'.arg.pairs)
           sets == SelectSeq(last'.sent, LAMBDA m : m.t = MSG_STATE_SET)
           open == UDiff(now, lastStateTelemetryPush[n]) >= STATE_TELEMETRY_MIN_INTERVAL
       IN /\ last'.pushes = (IF ch # <<>> /\ telemetryEnabled[n] /\ open THEN 1 ELSE 0)
          /\ last'.ret = (ch # <<>>)
          /\ Len(sets) = Len(ch)
          /\ \A i \in 1..Len(ch) : sets[i].d.k = ch[i].key /\ sets[i].d.v = ch[i].value
          /\ Len(last'.fired) =
               SumOver([i \in 1..Len(ch) |->
                          Len(WatchersOf(n, ch[i].key)) + Len(WatchersOf(n, "*"))],
                       1..Len(ch))
          /\ \A i \in 1..Len(ch) :
               \A j \in 1..Len(WatchersOf(n, ch[i].key) \o WatchersOf(n, "*")) :
                 \E f \in 1..Len(last'.fired) :
                   last'.fired[f] =
                     [cb |-> (WatchersOf(n, ch[i].key) \o WatchersOf(n, "*"))[j],
                      key |-> ch[i].key, value |-> ch[i].value,
                      oldValue |-> ch[i].oldValue]]_vars

\* C18 witness: a batch changed two values with telemetry on and the
\* debounce window elapsed: one push, two STATE_SET, watchers called for both.
C18_Witness ==
  /\ last.op = "setStates" /\ last.pushes = 1
  /\ Len(SelectSeq(last.sent, LAMBDA m : m.t = MSG_STATE_SET)) = 2
  /\ Len(last.fired) >= 3
  /\ lastStateTelemetryPush[Me] = now

\* A call of checkForOTAUpdates that passed the enable and interval gates.
ScheduledCheckStep == last'.op = "checkForOTAUpdates" /\ last'.arg.scheduled

C20_PollSkippedOnlyDuringTransfer ==
  [][(/\ ScheduledCheckStep
      /\ wifiConnected[last'.node] /\ telemetryUrl[last'.node] # ""
      /\ last'.http = <<>>)
       => (currentOTAUpdate[last'.node].active /\ otaTransferStarted[last'.node])]_vars

\* The positions in the call list h of the calls named r.
Reqs(h, r) == {i \in DOMAIN h : h[i].req = r}

\* A call of the sender callback on the node of the step.
SenderStep == last'.op = "otaDataRequest"

\* C21: /complete is reported exactly once per update, when part
\* numParts - 1 is first produced: a request for part numParts - 1 that
\* arrives after that part was already produced (a repeat, or a second
\* receiving node) reports no further /complete.
C21_CompleteReportedOnce ==
  [][(/\ SenderStep
      /\ otaTransferStarted[last'.node]
      /\ otaLastPartSent[last'.node] = last'.arg.partNo
      /\ last'.arg.partNo + 1 = currentOTAUpdate[last'.node].numParts)
       => Reqs(last'.http, "complete") = {}]_vars

\* C22: the sender callback returns 0 without fetching when
\* partNo * OTA_PART_SIZE >= otaFirmwareSize; otherwise it asks for the
\* bytes partNo * OTA_PART_SIZE .. partNo * OTA_PART_SIZE + c - 1 with
\* c = min(OTA_PART_SIZE, otaFirmwareSize - partNo * OTA_PART_SIZE) and
\* returns c when the read was complete.
C22_ChunkRange ==
  [][SenderStep =>
       LET p == last'.arg.partNo
           S == otaFirmwareSize[last'.node]
           c == IF S - p * 1024 < 1024 THEN S - p * 1024 ELSE 1024
       IN IF p * 1024 >= S
          THEN last'.ret = 0 /\ last'.http = <<>>
          ELSE /\ Reqs(last'.http, "download") = {1}
               /\ last'.http[1].lo = p * 1024
               /\ last'.http[1].hi = p * 1024 + c - 1
               /\ (last'.arg.fetch = "ok" => last'.ret = c)]_vars

\* The last, partial part of a 1536-byte firmware was produced: 512 bytes.
C22_Witness ==
  /\ last.op = "otaDataRequest" /\ last.arg.fetch = "ok" /\ last.arg.partNo = 1
  /\ otaFirmwareSize[last.node] = 1536
  /\ last.ret = 512

\* C23: startOTADistribution reports /start before it offers; a rejected
\* offer is followed by exactly one /fail and clears active; an accepted
\* offer leaves the update active and reports neither /fail nor /complete.
C23_OfferStep ==
  [][Reqs(last'.http, "offerOTA") # {}
       => LET h == last'.http
              n == last'.node
          IN /\ Cardinality(Reqs(h, "start")) = 1
             /\ \A i \in Reqs(h, "start"), j \in Reqs(h, "offerOTA") : i < j
             /\ IF last'.arg.offerOk
                THEN /\ currentOTAUpdate'[n].active
                     /\ Reqs(h, "fail") = {} /\ Reqs(h, "complete") = {}
                ELSE /\ ~currentOTAUpdate'[n].active
                     /\ Cardinality(Reqs(h, "fail")) = 1
                     /\ \A i \in Reqs(h, "fail"), j \in Reqs(h, "offerOTA") : j < i]_vars

\* The transport rejected an offer and the failure was reported.
C23_Witness ==
  /\ last.op = "checkForOTAUpdates" /\ ~last.arg.offerOk
  /\ Reqs(last.http, "offerOTA") # {} /\ Reqs(last.http, "fail") # {}
  /\ ~currentOTAUpdate[last.node].active

\* C24: a chunk fetch of an active update answered with a status other
\* than 200/206 makes the gateway report /fail once and clear active.
C24_FetchFailureFailsUpdate ==
  [][(/\ SenderStep /\ last'.arg.fetch = "http_error"
      /\ currentOTAUpdate[last'.node].active
      /\ Reqs(last'.http, "download") # {})
       => /\ Cardinality(Reqs(last'.http, "fail")) = 1
          /\ ~currentOTAUpdate'[last'.node].active]_vars

\* C25: a short read makes the sender callback return 0 and leaves
\* otaTransferStarted, otaLastPartSent and the update record (active
\* included) as they were, with no /complete reported.
C25_ShortReadLeavesNoState ==
  [][(SenderStep /\ last'.arg.fetch = "short")
       => /\ last'.ret = 0
          /\ UNCHANGED <<otaTransferStarted, otaLastPartSent, currentOTAUpdate,
                         otaFirmwareSize, otaSender>>
          /\ Reqs(last'.http, "complete") = {}]_vars

\* A download of the first part of an offered update came up short.
C25_Witness ==
  /\ last.op = "otaDataRequest" /\ last.arg.fetch = "short"
  /\ Reqs(last.http, "download") # {}
  /\ currentOTAUpdate[last.node].active /\ ~otaTransferStarted[last.node]
  /\ last.ret = 0

\* The envelope msg, received in gateway mode gw or not, is one that
\* onReceive handles: a heartbeat, a STATE_SET with a key, a STATE_SYNC, a
\* STATE_REQ, or a TELEMETRY on a gateway.
HandledMessage(msg, gw) ==
  /\ "json" \notin DOMAIN msg
  /\ \/ msg.t \in {MSG_HEARTBEAT, MSG_STATE_SYNC, MSG_STATE_REQ}
     \/ msg.t = MSG_STATE_SET /\ "k" \in DOMAIN msg.d /\ msg.d.k # ""
     \/ msg.t = MSG_TELEMETRY /\ gw

\* C26: text that is not JSON, an envelope of a type that is not handled
\* (unknown, COMMAND, TELEMETRY on a non-gateway) and a STATE_SET with an
\* empty key are dropped: store, peer table, role, coordinatorId and timers
\* are unchanged, no watcher fires, nothing is sent or pushed.
C26_UnhandledMessagesDropped ==
  [][(last'.op = "onReceive" /\ ~HandledMessage(last'.arg, gatewayMode[last'.node]))
       => /\ UNCHANGED <<sharedState, peers, myRole, coordinatorId, lastHeartbeat,
                         lastStateSync, lastTelemetryPush, lastStateTelemetryPush>>
          /\ last'.fired = <<>> /\ last'.sent = <<>>
          /\ last'.http = <<>> /\ last'.pushes = 0]_vars

\* A STATE_SET without a key reached a node that watches "" and "*" and
\* holds entries and a peer.
C26_Witness ==
  /\ last.op = "onReceive" /\ "json" \notin DOMAIN last.arg
  /\ last.arg.t = MSG_STATE_SET /\ "k" \notin DOMAIN last.arg.d
  /\ DOMAIN stateWatchers[last.node] = {"", "*"}
  /\ DOMAIN sharedState[last.node] # {}
  /\ DOMAIN peers[last.node] # {}

\* A STATE_REQ was received.
StateReqStep == last'.op = "onReceive" /\ HandledMessage(last'.arg, FALSE)
                /\ last'.arg.t = MSG_STATE_REQ

\* The entries (k, v, ver, org) of the store st.
EntriesOf(st) ==
  {[k |-> k, v |-> st[k].value, ver |-> st[k].version, org |-> st[k].origin] : k \in DOMAIN st}

\* The STATE_SYNC envelope msg lists exactly the entries of st, each once.
ListsStore(msg, st) ==
  /\ msg.t = MSG_STATE_SYNC
  /\ Len(msg.d.s) = Cardinality(DOMAIN st)
  /\ {msg.d.s[i] : i \in DOMAIN msg.d.s} = EntriesOf(st)

\* C29 (as stated): a node that receives a STATE_REQ broadcasts one
\* STATE_SYNC listing every entry of its store, whatever the size of the
\* store, and its store is unchanged.
C29_StateReqAnsweredAlways ==
  [][StateReqStep
       => /\ Len(last'.sent) = 1
          /\ ListsStore(last'.sent[1], sharedState[last'.node])
          /\ UNCHANGED sharedState]_vars

\* C29 (amended): a node with a non-empty store that receives a STATE_REQ
\* broadcasts one STATE_SYNC listing every entry of its store; a node with
\* an empty store sends nothing; the store is unchanged in both cases.
C29_StateReqAnsweredUnlessEmpty ==
  [][StateReqStep
       => /\ IF DOMAIN sharedState[last'.node] = {}
             THEN last'.sent = <<>>
             ELSE /\ Len(last'.sent) = 1
                  /\ ListsStore(last'.sent[1], sharedState[last'.node])
          /\ UNCHANGED sharedState]_vars

\* A node holding two entries answered a STATE_REQ.
C29_Witness ==
  /\ last.op = "onReceive" /\ "json" \notin DOMAIN last.arg
  /\ last.arg.t = MSG_STATE_REQ
  /\ Cardinality(DOMAIN sharedState[last.node]) = 2
  /\ Len(last.sent) = 1

\* On the node of the step an OTA poll is due: gateway mode, distribution
\* enabled, the poll interval elapsed, no active update, WiFi up and a
\* server configured.
PollDue(n) ==
  /\ otaDistributionEnabled[n] /\ gatewayMode[n]
  /\ UDiff(now, lastOTACheck[n]) >= 60000
  /\ ~currentOTAUpdate[n].active
  /\ wifiConnected[n] /\ telemetryUrl[n] # ""

C27_UpdateOrder ==
  [][last'.op = "update" =>
       LET n == last'.node
           st == sharedState'[n]
           sent == last'.sent
       IN /\ scn.phase = "inbound" /\ scn'.phase = "idle"
          /\ [i \in 1..Len(sent) |-> sent[i].t]
               = (IF last'.arg.hb THEN <<MSG_HEARTBEAT>> ELSE <<>>)
                   \o (IF last'.arg.sync /\ DOMAIN st # {} THEN <<MSG_STATE_SYNC>> ELSE <<>>)
                   \o (IF last'.arg.tel THEN <<MSG_TELEMETRY>> ELSE <<>>)
          /\ \A i \in 1..Len(sent) :
               /\ sent[i].t = MSG_HEARTBEAT => sent[i].d.states = Cardinality(DOMAIN st)
               /\ sent[i].t = MSG_STATE_SYNC => ListsStore(sent[i], st)
               /\ sent[i].t = MSG_TELEMETRY
                    => /\ sent[i].d.peer_count
                            = Cardinality({q \in DOMAIN peers'[n] : peers'[n][q].alive})
                       /\ sent[i].d.state = [k \in DOMAIN st |-> st[k].value]
          /\ last'.arg.hb
               => \A q \in DOMAIN peers'[n] : UDiff(now, peers'[n][q].lastSeen) <= 15000
          /\ [i \in 1..Len(last'.fired) |-> last'.fired[i].cb] = loopCallbacks[n]]_vars

\* An iteration received a heartbeat and a STATE_SET that added a key,
\* then sent the heartbeat (counting two entries), the sync and the
\* telemetry (counting the peer just heard), and ran two loop callbacks.
C27_Witness ==
  /\ last.op = "update" /\ scn.seen = 2
  /\ last.arg.hb /\ last.arg.sync /\ last.arg.tel
  /\ Len(last.sent) = 3 /\ last.sent[1].d.states = 2
  /\ sharedState[last.node]["b"].timestamp = now
  /\ 1 \in DOMAIN peers[last.node] /\ peers[last.node][1].lastSeen = now
  /\ last.sent[3].d.peer_count = 1
  /\ Len(last.fired) = 2

\* C30: every entry of every node's store has a version of at least 1.
C30_VersionAtLeastOne ==
  \A n \in Nodes : \A k \in DOMAIN sharedState[n] : sharedState[n][k].version >= 1


\* C32: update() takes the display from awake to asleep exactly when the
\* manager was begun with a display type, the display is awake, the sleep
\* timeout is greater than 0 and the idle time exceeds the timeout (no wake
\* button press being registered by the same call); a press never makes it
\* sleep earlier, and with a timeout of 0 update() never puts the display to
\* sleep and sends no sleep command.
SleepDue ==
  /\ displayPower.type # "NONE"
  /\ ~displayPower.asleep
  /\ displayPower.sleepTimeoutMs > 0
  /\ getIdleTime > displayPower.sleepTimeoutMs

C32_UpdateSleepsOnTimeout ==
  [][last'.op = "display.update"
       => LET pins == last'.arg.pins
              quiet == \A i \in 1..Len(displayPower.wakeButtons) :
                         pins[i] = displayPower.wakeButtons[i].lastState
              slept == ~displayPower.asleep /\ displayPower'.asleep
          IN /\ slept => SleepDue
             /\ (quiet /\ SleepDue) => slept
             /\ slept => last'.fired = (IF displayPower.onSleep THEN <<"onSleep">> ELSE <<>>)
             /\ displayPower.sleepTimeoutMs = 0
                  => /\ ~slept
                     /\ \A i \in 1..Len(last'.fired) : last'.fired[i] # "onSleep"
                     /\ \A i \in 1..Len(last'.sent) :
                          last'.sent[i] \notin {"SSD1306_DISPLAYOFF", "SLPIN"}]_vars

\* C32 witness: update() has just put an idle OLED display to sleep after
\* the default timeout, with the command sent and onSleep called.
C32_Witness ==
  /\ last.op = "display.update"
  /\ displayPower.asleep
  /\ displayPower.sleepTimeoutMs = DISPLAY_SLEEP_TIMEOUT_MS
  /\ last.fired = <<"onSleep">>
  /\ last.sent = <<"SSD1306_DISPLAYOFF">>

\* C33: over any sequence of calls the invocations of onSleep and onWake
\* strictly alternate, starting with onSleep.
C33_CallbacksAlternate ==
  [][LET calls == <<scn.cb>> \o last'.fired
     IN \A i \in 1..(Len(calls) - 1) :
          /\ calls[i + 1] # calls[i]
          /\ calls[i] = "none" => calls[i + 1] = "onSleep"]_vars


\* C31: every OTA update that becomes active eventually becomes inactive
\* again, also when no node ever requests a part.
C31_ActiveUpdateEnds ==
  currentOTAUpdate[Me].active ~> ~currentOTAUpdate[Me].active


\* C34: update() sends a scheduled heartbeat exactly when at least
\* HEARTBEAT_INTERVAL ms have really elapsed since the last one, also
\* across the wrap of the millisecond counter, and then sets lastHeartbeat
\* to now; otherwise it sends none and leaves lastHeartbeat alone.
HeartbeatsIn(sent) == Len(SelectSeq(sent, LAMBDA m : m.t = MSG_HEARTBEAT))

C34_HeartbeatEveryInterval ==
  [][last'.op = "update"
       => IF scn.since >= HEARTBEAT_INTERVAL
            THEN /\ HeartbeatsIn(last'.sent) = 1
                 /\ lastHeartbeat'[Me] = now
                 /\ UDiff(now, lastHeartbeat[Me]) = scn.since
            ELSE /\ HeartbeatsIn(last'.sent) = 0
                 /\ lastHeartbeat'[Me] = lastHeartbeat[Me]]_vars

\* C34 witness: a heartbeat has just been sent after the counter wrapped,
\* at a clock value smaller than the interval, so the heartbeat before it
\* was sent before the wrap.
C34_Witness ==
  /\ last.op = "update"
  /\ HeartbeatsIn(last.sent) = 1
  /\ scn.wrapped
  /\ now < HEARTBEAT_INTERVAL
  /\ lastHeartbeat[Me] = now


\* C35: a heartbeat received from f creates or updates only the entry of f,
\* with lastSeen = now and alive = true, and changes no other peer and no
\* store entry; a dropped connection of f only clears alive on an existing
\* entry and neither creates nor removes an entry; after every step
\* getPeerCount() is the number of table entries whose latest event was a
\* received heartbeat.
OtherPeersKept(f) ==
  /\ DOMAIN peers'[Me] \ {f} = DOMAIN peers[Me] \ {f}
  /\ \A g \in DOMAIN peers[Me] \ {f} : peers'[Me][g] = peers[Me][g]

C35_PeerLivenessFlag ==
  [][/\ (last'.op = "onReceive" /\ last'.arg.t = MSG_HEARTBEAT)
          => LET f == last'.arg.from
             IN /\ OtherPeersKept(f)
                /\ f \in DOMAIN peers'[Me]
                /\ peers'[Me][f].lastSeen = now
                /\ peers'[Me][f].alive
                /\ sharedState' = sharedState
     /\ last'.op = "onDroppedConnection"
          => LET f == last'.arg.nodeId
             IN /\ OtherPeersKept(f)
                /\ DOMAIN peers'[Me] = DOMAIN peers[Me]
                /\ f \in DOMAIN peers[Me]
                     => peers'[Me][f] = [peers[Me][f] EXCEPT !.alive = FALSE]
                /\ sharedState' = sharedState
     /\ getPeerCount(Me)'
          = Cardinality({f \in DOMAIN peers'[Me] : scn'.latest[f] = "hb"})]_vars

\* C35 witness: the connection of one of two known peers has just been
\* dropped: both entries are still in the table and one is counted.
C35_Witness ==
  /\ last.op = "onDroppedConnection"
  /\ Cardinality(DOMAIN peers[Me]) = 2
  /\ ~peers[Me][last.arg.nodeId].alive
  /\ getPeerCount(Me) = 1
  /\ sharedState[Me] # EmptyMap


\* C36: setStates(pairs) leaves the store, the sequence of watcher
\* invocations and the sequence of STATE_SET broadcasts as calling
\* setState on each pair in list order does, and returns true iff one of
\* these setState calls returns true.
RECURSIVE SetStateEach(_, _, _, _)
SetStateEach(L, n, pairs, any) ==
  IF pairs = <<>> THEN [L EXCEPT !.ret = any]
  ELSE LET L1 == SetStateL(L, n, pairs[1][1], pairs[1][2])
       IN SetStateEach(L1, n, Tail(pairs), any \/ L1.ret)

StateSetsOf(sent) == SelectSeq(sent, LAMBDA m : m.t = MSG_STATE_SET)

C36_BatchEqualsSequence ==
  [][last'.op = "setStates"
       => LET R == SetStateEach(Ctx(Me), Me, last'.arg.pairs, FALSE)
          IN /\ sharedState'[Me] = R.st
             /\ last'.fired = R.fired
             /\ StateSetsOf(last'.sent) = StateSetsOf(R.sent)
             /\ last'.ret = R.ret
             /\ last'.pushes <= R.pushes]_vars

\* C36 witness: a batch that names the same key twice has just been
\* written with a watcher registered: two broadcasts, two watcher calls,
\* and the key at the version of the second write.
C36_Witness ==
  /\ last.op = "setStates"
  /\ Len(last.arg.pairs) = 2
  /\ last.arg.pairs[1][1] = last.arg.pairs[2][1]
  /\ Len(StateSetsOf(last.sent)) = 2
  /\ Len(last.fired) >= 2
  /\ sharedState[Me][last.arg.pairs[1][1]].version >= 2


\* C40: a value-changing local write of a stored key installs a version
\* strictly greater than the version it replaces, whatever the stored
\* version, the maximum of the counter included.
C40_LocalWriteRaisesVersion ==
  [][ChangingSetStep =>
       LET n == last'.node
           k == last'.arg.key
       IN k \in DOMAIN sharedState[n]
            => sharedState'[n][k].version > sharedState[n][k].version]_vars


\* C37: for any key, any two entries anywhere in the system, in a node's
\* store or in a STATE_SET or STATE_SYNC message in flight, that carry the
\* same (version, origin) carry the same value.
EntriesInFlight ==
  {m.d : m \in {x \in net : x.t = MSG_STATE_SET}}
    \cup UNION {{m.d.s[i] : i \in DOMAIN m.d.s} : m \in {x \in net : x.t = MSG_STATE_SYNC}}

EntriesAnywhere == EntriesInFlight \cup UNION {EntriesOf(sharedState[n]) : n \in Nodes}

C37_VersionOriginNamesOneValue ==
  \A e \in EntriesAnywhere, f \in EntriesAnywhere :
    (e.k = f.k /\ e.ver = f.ver /\ e.org = f.org) => e.v = f.v


\* C38: once local writes have stopped and every node has processed a
\* full-state STATE_SYNC of every other node sent after the last write,
\* getState(k, "") returns the same value on all nodes for every key k.
SyncsExchanged == scn.quiet /\ \A a \in Nodes : scn.got[a] = Nodes \ {a}

C38_ValuesConverge ==
  SyncsExchanged
    => \A k \in MeshKeys : \A a \in Nodes, b \in Nodes : ValueIn(sharedState[a], k) = ValueIn(sharedState[b], k)


\* C39: a single write of a different value made on a converged mesh wins:
\* once its STATE_SET and a later full-state sync of every node have been
\* delivered to every other node, every node holds the written value.
LateDelivered ==
  /\ scn.late
  /\ \A a \in Nodes : scn.got[a] = Nodes \ {a}
  /\ net = {}

C39_LateWriteWins ==
  LateDelivered => \A n \in Nodes : \A k \in MeshKeys : ValueIn(sharedState[n], k) = scn.value

=============================================================================
